---- MODULE Spec2Model ----
(***************************************************************************)
(* A model of install-binary: the history store (history.py) with its     *)
(* staging-file save protocol, and the install pipeline (installer.py).   *)
(* Processes are independent invocations sharing one filesystem.          *)
(***************************************************************************)
EXTENDS Integers, Sequences, FiniteSets, TLC

VARIABLES
    histFile,   \* the history document at its final path
    tmpFiles,   \* staging files of the history directory, by name
    locked,     \* staging files on which an exclusive flock is held
    mem,        \* self.history of each process's HistoryManager
    pc,         \* position of each process
    op,         \* the call each process is executing, or executed last
    ret,        \* outcome of that call
    result,     \* mapping returned by the last get_installed_files
    tmp,        \* temp_path of the running save_history
    clock,      \* datetime.now(), one tick per reading
    acked,      \* history entries present at start or whose append returned
    atLock,     \* the durable log as it stood when the save took its lock
    src,        \* the candidate source files, by path
    dirExists,  \* whether the install directory exists
    dest,       \* the files of the install directory, by name
    sourceStat, \* self._source_stat of each process's installer
    loc         \* locals of the running install_file / uninstall_file

histVars == <<histFile, tmpFiles, locked, tmp, acked, atLock>>
instVars == <<src, dirExists, dest, sourceStat, loc>>

vars == <<histFile, tmpFiles, locked, mem, pc, op, ret, result, tmp, clock,
          acked, atLock, src, dirExists, dest, sourceStat, loc>>

----------------------------------------------------------------------------
(* Bounds *)

MaxAppends == 3

MaxLogOps == 3

Procs == {"p1", "p2"}
Sources == {"s1", "s2"}
TmpNames == {"h1", "h2", "h3", "h4"}

\* arguments of the direct add_installation / add_uninstallation calls
AddSources == {"s1"}
AddTargets == {<<"t1">>}

----------------------------------------------------------------------------
(* Program constants *)

HistoryMode == 420          \* 0o644
MkstempMode == 384          \* 0o600, the mode mkstemp creates with
DEFAULT_PERMISSIONS == 493  \* 0o755
OpenMode == 420             \* 0o644, open(path, "w") under umask 0o022

----------------------------------------------------------------------------
(* Files *)

Absent == [exists |-> FALSE, content |-> <<>>, mode |-> 0]
File(c, m) == [exists |-> TRUE, content |-> c, mode |-> m]

----------------------------------------------------------------------------
(* History entries and logs *)

InstallEntry(ts, source, target, type, checksum) ==
    [timestamp |-> ts, action |-> "install", source |-> source,
     target |-> target, type |-> type, checksum |-> checksum,
     user |-> "user", uid |-> 1000]

UninstallEntry(ts, target) ==
    [timestamp |-> ts, action |-> "uninstall", target |-> target,
     user |-> "user", uid |-> 1000]

NullChecksum == <<>>

EmptyLog == [installations |-> <<>>, uninstallations |-> <<>>]

AllKeys == <<"installations", "uninstallations", "extra">>

KeysOf(log) == SelectSeq(AllKeys, LAMBDA k : k \in DOMAIN log)

Range(s) == {s[i] : i \in 1..Len(s)}

----------------------------------------------------------------------------
(* json.dump / json.load on a token stream *)

LBrace == [t |-> "lbrace"]
RBrace == [t |-> "rbrace"]
LBrack == [t |-> "lbrack"]
RBrack == [t |-> "rbrack"]
KeyTok(k) == [t |-> "key", k |-> k]
EntryTok(e) == [t |-> "entry", e |-> e]

RECURSIVE DumpMembers(_, _)
DumpMembers(log, ks) ==
    IF ks = <<>> THEN <<>>
    ELSE <<KeyTok(Head(ks)), LBrack>>
         \o [i \in 1..Len(log[Head(ks)]) |-> EntryTok(log[Head(ks)][i])]
         \o <<RBrack>>
         \o DumpMembers(log, Tail(ks))

Dump(log) == <<LBrace>> \o DumpMembers(log, KeysOf(log)) \o <<RBrace>>

ParseError == [ok |-> FALSE, dict |-> FALSE, data |-> EmptyLog]

\* index of the "]" closing an array whose first element is at i, 0 if none
RECURSIVE ArrEnd(_, _)
ArrEnd(toks, i) ==
    IF i > Len(toks) THEN 0
    ELSE IF toks[i].t = "rbrack" THEN i
    ELSE IF toks[i].t = "entry" THEN ArrEnd(toks, i + 1)
    ELSE 0

RECURSIVE ParseMembers(_, _, _)
ParseMembers(toks, i, acc) ==
    IF i > Len(toks) THEN ParseError
    ELSE IF toks[i].t = "rbrace"
    THEN IF i = Len(toks) THEN [ok |-> TRUE, dict |-> TRUE, data |-> acc]
         ELSE ParseError
    ELSE IF toks[i].t = "key" /\ i + 1 <= Len(toks) /\ toks[i + 1].t = "lbrack"
    THEN LET j == ArrEnd(toks, i + 2) IN
         IF j = 0 THEN ParseError
         ELSE LET arr == [n \in 1..(j - i - 2) |-> toks[i + 1 + n].e]
                  key == toks[i].k
              IN ParseMembers(toks, j + 1,
                     [k \in DOMAIN acc \cup {key} |->
                         IF k = key THEN arr ELSE acc[k]])
    ELSE ParseError

Parse(toks) ==
    IF toks = <<>> THEN ParseError
    ELSE IF toks[1].t = "lbrace" THEN ParseMembers(toks, 2, [k \in {} |-> <<>>])
    ELSE IF toks[1].t = "lbrack"
    THEN IF ArrEnd(toks, 2) = Len(toks)
         THEN [ok |-> TRUE, dict |-> FALSE, data |-> EmptyLog]
         ELSE ParseError
    ELSE ParseError

\* bytes that are not text in the encoding open(path, "r") decodes with
BadBytes == [t |-> "badbytes"]

\* f.read() inside json.load: the text, or UnicodeDecodeError
Decodable(content) == \A i \in 1..Len(content) : content[i] # BadBytes

\* HistoryManager.load_history: status and the log returned.  Only
\* json.JSONDecodeError and OSError are translated.
LoadHistory(f) ==
    IF ~f.exists THEN [status |-> "ok", log |-> EmptyLog]
    ELSE IF ~Decodable(f.content)
    THEN [status |-> "UnicodeDecodeError", log |-> EmptyLog]
    ELSE LET d == Parse(f.content) IN
         IF ~d.ok THEN [status |-> "ValidationError", log |-> EmptyLog]
         ELSE IF ~d.dict THEN [status |-> "ValidationError", log |-> EmptyLog]
         ELSE IF "installations" \notin DOMAIN d.data
                 \/ "uninstallations" \notin DOMAIN d.data
         THEN [status |-> "ValidationError", log |-> EmptyLog]
         ELSE [status |-> "ok", log |-> d.data]

----------------------------------------------------------------------------
(* HistoryManager.get_installed_files *)

NoMapping == [k \in {} |-> 0]

Put(m, k, v) == [x \in DOMAIN m \cup {k} |-> IF x = k THEN v ELSE m[x]]
Pop(m, k) == [x \in DOMAIN m \ {k} |-> m[x]]

\* variant: an earlier entry for a target is kept
RECURSIVE TrackFirstInstallation(_, _)
TrackFirstInstallation(installed, entries) ==
    IF entries = <<>> THEN installed
    ELSE TrackFirstInstallation(
             IF Head(entries).target \in DOMAIN installed THEN installed
             ELSE Put(installed, Head(entries).target, Head(entries)),
             Tail(entries))

RECURSIVE TrackInstallations(_, _)
TrackInstallations(installed, entries) ==
    IF entries = <<>> THEN installed
    ELSE TrackInstallations(Put(installed, Head(entries).target, Head(entries)),
                            Tail(entries))

RECURSIVE RemoveUninstalled(_, _)
RemoveUninstalled(installed, entries) ==
    IF entries = <<>> THEN installed
    ELSE RemoveUninstalled(Pop(installed, Head(entries).target), Tail(entries))

get_installed_files(log) ==
    RemoveUninstalled(TrackInstallations(NoMapping, log.installations),
                      log.uninstallations)

----------------------------------------------------------------------------
(* Names, source files and the install directory *)

\* A file name is its stem followed by its dotted suffixes: "app.py" is
\* <<"app", ".py">>.  The empty name stands for None and "".
NoName == <<>>
SuffixTokens == {".py", ".pyw", ".PY", ".sh", ".tmp.p1", ".tmp.p2"}

\* str.lower() on a suffix
LowerSuffix(suffix) == IF suffix = ".PY" THEN ".py" ELSE suffix

\* variant: the staging suffix does not depend on the process
TmpSuffixShared(p) == ".tmp.p1"

\* os.getpid() as it appears in the staging suffix
TmpSuffix(p) == IF p = "p1" THEN ".tmp.p1" ELSE ".tmp.p2"

\* PurePath.suffix and PurePath.with_suffix
Suffix(name) ==
    IF Len(name) > 1 /\ name[Len(name)] \in SuffixTokens THEN name[Len(name)]
    ELSE ""
with_suffix(name, suffix) ==
    IF Suffix(name) = "" THEN Append(name, suffix)
    ELSE Append(SubSeq(name, 1, Len(name) - 1), suffix)

\* file contents are sequences of lines
Shebang == "#!/usr/bin/env python3"

\* a "#!" line in which "python" comes after the first 100 bytes
LongPythonLine == "#!/opt/<90 more bytes>/bin/python3"

\* lines that start with "#!"; those among them with "python" in the part of
\* the line that lies within the first 100 bytes of the file
MarkerLines == {Shebang, "#!/bin/sh", LongPythonLine}
PythonLines == {Shebang}

NoFile == [exists |-> FALSE, kind |-> "none", nlink |-> 0, mode |-> 0,
           content |-> <<>>, mtime |-> 0]
RegFile(content, mode, mtime) ==
    [exists |-> TRUE, kind |-> "file", nlink |-> 1, mode |-> mode,
     content |-> content, mtime |-> mtime]

\* "/src/link" is a symbolic link to a regular file, "/src/dangling" a
\* symbolic link whose target does not exist, "/src/hard" a regular file with
\* a second hard link, "/src/dir" a directory, "/src/dir1" a directory on a
\* file system that gives directories one link, "/src/none" does not exist.
SrcPaths == {"/src/tool.sh", "/src/app.py", "/src/suid", "/src/link",
             "/src/dangling", "/src/hard", "/src/run", "/src/gui.pyw",
             "/src/sh.py", "/src/APP.PY", "/src/venv", "/src/win.py", "/src/dir",
             "/src/dir1", "/src/none"}
InstallPaths == {"/src/tool.sh", "/src/app.py", "/src/suid", "/src/link"}
SrcName(path) ==
    CASE path = "/src/tool.sh" -> <<"tool", ".sh">>
      [] path = "/src/app.py" -> <<"app", ".py">>
      [] path = "/src/suid" -> <<"suid">>
      [] path = "/src/dangling" -> <<"dangling">>
      [] path = "/src/hard" -> <<"hard">>
      [] path = "/src/run" -> <<"run">>
      [] path = "/src/gui.pyw" -> <<"gui", ".pyw">>
      [] path = "/src/sh.py" -> <<"sh", ".py">>
      [] path = "/src/APP.PY" -> <<"APP", ".PY">>
      [] path = "/src/venv" -> <<"venv">>
      [] path = "/src/win.py" -> <<"win", ".py">>
      [] path = "/src/dir" -> <<"dir">>
      [] path = "/src/dir1" -> <<"dir1">>
      [] path = "/src/none" -> <<"none">>
      [] OTHER -> <<"link">>

SrcInit ==
    [path \in SrcPaths |->
        CASE path = "/src/tool.sh" -> RegFile(<<"#!/bin/sh", "echo hi">>, 420, 1)
          [] path = "/src/app.py" -> RegFile(<<"print(1)">>, 511, 1)
          [] path = "/src/suid" -> RegFile(<<"ELF">>, 2541, 1)
          [] path = "/src/dangling" -> [NoFile EXCEPT !.kind = "symlink"]
          [] path = "/src/hard" -> [RegFile(<<"ELF">>, 493, 1) EXCEPT !.nlink = 2]
          [] path = "/src/run" -> RegFile(<<Shebang, "print(1)">>, 493, 1)
          [] path = "/src/gui.pyw" -> RegFile(<<"print(1)">>, 420, 1)
          [] path = "/src/sh.py" -> RegFile(<<"#!/bin/sh", "echo hi">>, 493, 1)
          [] path = "/src/APP.PY" -> RegFile(<<"print(1)">>, 420, 1)
          [] path = "/src/venv" -> RegFile(<<LongPythonLine, "print(1)">>, 493, 1)
          [] path = "/src/win.py" -> RegFile(<<"print(1)\r">>, 420, 1)
          [] path = "/src/dir" ->
               [RegFile(<<>>, 493, 1) EXCEPT !.kind = "dir", !.nlink = 2]
          [] path = "/src/dir1" -> [RegFile(<<>>, 493, 1) EXCEPT !.kind = "dir"]
          [] path = "/src/none" -> NoFile
          [] OTHER -> [RegFile(<<"#!/bin/sh", "echo hi">>, 420, 1)
                          EXCEPT !.kind = "symlink"]]

TargetNameArgs == {NoName, <<"tool">>}
UninstallNames == {<<"tool">>, <<"app">>}

\* "evil" is a name in the install directory that is a symbolic link to
\* LinkTarget from the start
LinkName == <<"evil">>
CleanNames ==
    {SrcName(path) : path \in SrcPaths}
    \cup {<<"tool">>, <<"app">>, <<"sh">>, <<"win">>, LinkName}
DestNames ==
    CleanNames \cup {with_suffix(n, TmpSuffix(p)) : n \in CleanNames, p \in Procs}
DestInit ==
    [n \in DestNames |->
        IF n = LinkName THEN [NoFile EXCEPT !.exists = TRUE, !.kind = "symlink"]
        ELSE NoFile]
\* what the user types at a prompt; NoResponse when there was no prompt
Responses == {"y", "Y", "n"}
NoResponse == "none"

\* str.lower() on these
Lower(response) == IF response = "Y" THEN "y" ELSE response

\* stat(): the fields the installer compares
Stat(f) == [mtime |-> f.mtime, size |-> Len(f.content)]
NoStat == [mtime |-> -1, size |-> -1]

\* content: what ensure_shebang returned, until it is written; errno: e.errno
\* of the OSError save_history caught
NoLoc == [source |-> "none", is_python |-> FALSE, checksum |-> NullChecksum,
          target |-> NoName, temp |-> NoName, content |-> <<>>,
          response |-> NoResponse, errno |-> "none"]

----------------------------------------------------------------------------
(* UniversalInstaller helpers *)

RECURSIVE BitAnd(_, _)
BitAnd(a, b) ==
    IF a = 0 \/ b = 0 THEN 0
    ELSE (a % 2) * (b % 2) + 2 * BitAnd(a \div 2, b \div 2)

is_symlink_or_hardlink(f) == f.kind = "symlink" \/ f.nlink > 1

is_python_script(name, f) ==
    \/ LowerSuffix(Suffix(name)) \in {".py", ".pyw"}
    \/ /\ f.content # <<>>
       /\ f.content[1] \in MarkerLines
       /\ f.content[1] \in PythonLines

calculate_checksum(f) == <<"sha256">> \o f.content

\* f.read() of a file opened in text mode: "\r\n" becomes "\n", so a line
\* loses the "\r" at its end
StripCR(line) == IF line = "print(1)\r" THEN "print(1)" ELSE line
ReadText(content) == [i \in 1..Len(content) |-> StripCR(content[i])]

\* ensure_shebang: the text to write, given the bytes of the script
ensure_shebang(content) ==
    LET text == ReadText(content) IN
    IF text # <<>> /\ text[1] \in MarkerLines THEN text
    ELSE <<Shebang>> \o text

\* variant: the path is resolved and tested for a regular file first
source_error_resolving(f) ==
    IF ~f.exists THEN "Source file not found"
    ELSE IF f.kind \notin {"file", "symlink"} THEN "Source is not a file"
    ELSE IF is_symlink_or_hardlink(f) THEN "is a symlink or hardlink"
    ELSE "none"

\* validate_source: the message of the error raised, or "none"
source_error(f) ==
    IF ~f.exists THEN "Source file not found"
    ELSE IF is_symlink_or_hardlink(f) THEN "is a symlink or hardlink"
    ELSE IF f.kind # "file" THEN "Source is not a file"
    ELSE "none"

\* validate_source: the error raised, or "ok"
validate_source(f) ==
    IF source_error(f) = "none" THEN "ok"
    ELSE IF source_error(f) = "Source file not found" THEN "FileNotFoundError"
    ELSE "ValidationError"

\* variant: only the size is compared
verify_size_only(p, f) ==
    IF sourceStat[p] = NoStat THEN "ValidationError"
    ELSE IF ~f.exists THEN "ValidationError"
    ELSE IF Stat(f).size # sourceStat[p].size THEN "ValidationError"
    ELSE "ok"

\* verify_source_unchanged: the error raised, or "ok"
verify_source_unchanged(p, f) ==
    IF sourceStat[p] = NoStat THEN "ValidationError"
    ELSE IF ~f.exists THEN "ValidationError"
    ELSE IF Stat(f).mtime # sourceStat[p].mtime \/ Stat(f).size # sourceStat[p].size
    THEN "ValidationError"
    ELSE "ok"

\* variant: ".py" is stripped whether or not stripping is enabled
TargetFilenameStripping(target_name, source_name, is_python, remove_extension) ==
    IF target_name # NoName THEN target_name
    ELSE IF is_python /\ source_name[Len(source_name)] = ".py"
    THEN SubSeq(source_name, 1, Len(source_name) - 1)
    ELSE source_name

\* the name under which install_file installs
TargetFilename(target_name, source_name, is_python, remove_extension) ==
    IF target_name # NoName THEN target_name
    ELSE IF is_python /\ remove_extension /\ source_name[Len(source_name)] = ".py"
    THEN SubSeq(source_name, 1, Len(source_name) - 1)
    ELSE source_name

HasSeparator(name) == \E i \in 1..Len(name) : name[i] \in {"/", "\\", ".."}

\* An absolute path is the sequence of its components, each a file name or
\* ParentDir; the install directory is "/bin".
ParentDir == <<"..">>
InstallDir == << <<"bin">> >>
LinkTarget == << <<"etc">>, <<"passwd">> >>

\* self.install_dir / name: the "/" tokens of the name separate components
RECURSIVE Components(_, _)
Components(name, acc) ==
    IF name = <<>> THEN (IF acc = <<>> THEN <<>> ELSE <<acc>>)
    ELSE IF Head(name) = "/"
    THEN (IF acc = <<>> THEN <<>> ELSE <<acc>>) \o Components(Tail(name), <<>>)
    ELSE Components(Tail(name), Append(acc, Head(name)))
TargetPath(name) == InstallDir \o Components(name, <<>>)

IsSymlink(path) ==
    /\ Len(path) = Len(InstallDir) + 1
    /\ SubSeq(path, 1, Len(InstallDir)) = InstallDir
    /\ path[Len(path)] \in DestNames
    /\ dest[path[Len(path)]].kind = "symlink"

\* Path.parent and Path.resolve: ".." steps up, a symbolic link is followed
Parent(path) == IF path = <<>> THEN <<>> ELSE SubSeq(path, 1, Len(path) - 1)
RECURSIVE Resolve(_, _)
Resolve(path, acc) ==
    IF path = <<>> THEN acc
    ELSE IF Head(path) = ParentDir THEN Resolve(Tail(path), Parent(acc))
    ELSE IF IsSymlink(Append(acc, Head(path))) THEN Resolve(Tail(path), LinkTarget)
    ELSE Resolve(Tail(path), Append(acc, Head(path)))

\* variant: any path below the install directory is accepted
validate_target_path_below(path) ==
    LET r == Resolve(path, <<>>)
        d == Resolve(InstallDir, <<>>)
    IN IF Len(r) > Len(d) /\ SubSeq(r, 1, Len(d)) = d THEN "ok"
       ELSE "ValidationError"

\* validate_target_path: the resolved parent must be the install directory
validate_target_path(path) ==
    IF Parent(Resolve(path, <<>>)) # Resolve(InstallDir, <<>>)
    THEN "ValidationError"
    ELSE "ok"

\* verify_installation: the error raised, or "ok"
verify_installation(f) ==
    IF ~f.exists THEN "ValidationError"
    ELSE IF BitAnd(f.mode, DEFAULT_PERMISSIONS) # DEFAULT_PERMISSIONS
    THEN "ValidationError"
    ELSE IF f.kind = "symlink" THEN "ValidationError"
    ELSE "ok"

----------------------------------------------------------------------------
(* Calls *)

NoOp == [kind |-> "none"]
Ready(p) == pc[p] = "ready"

FreshTmp == CHOOSE n \in TmpNames : ~tmpFiles[n].exists

Init ==
    /\ histFile \in {Absent,
                     File(Dump([installations |->
                                   <<InstallEntry(0, "s2", <<"t1">>, "binary", NullChecksum)>>,
                                uninstallations |-> <<>>]), HistoryMode)}
    /\ tmpFiles = [n \in TmpNames |-> Absent]
    /\ locked = {}
    /\ mem = [p \in Procs |-> EmptyLog]
    /\ pc = [p \in Procs |-> "init"]
    /\ op = [p \in Procs |-> NoOp]
    /\ ret = [p \in Procs |-> "none"]
    /\ result = [p \in Procs |-> NoMapping]
    /\ tmp = [p \in Procs |-> "none"]
    /\ clock = 1
    /\ acked = IF histFile.exists THEN Range(LoadHistory(histFile).log.installations)
               ELSE {}
    /\ atLock = [p \in Procs |-> EmptyLog]
    /\ src = SrcInit
    /\ dirExists = FALSE
    /\ dest = DestInit
    /\ sourceStat = [p \in Procs |-> NoStat]
    /\ loc = [p \in Procs |-> NoLoc]

\* HistoryManager.__init__
Construct(p) ==
    /\ pc[p] = "init"
    /\ LET l == LoadHistory(histFile) IN
       IF l.status = "ok"
       THEN /\ mem' = [mem EXCEPT ![p] = l.log]
            /\ pc' = [pc EXCEPT ![p] = "ready"]
            /\ ret' = [ret EXCEPT ![p] = "ok"]
       ELSE /\ mem' = mem
            /\ pc' = [pc EXCEPT ![p] = "init"]
            /\ ret' = [ret EXCEPT ![p] = l.status]
    /\ op' = [op EXCEPT ![p] = [kind |-> "construct"]]
    /\ UNCHANGED <<histFile, tmpFiles, locked, result, tmp, clock, acked, atLock>>
    /\ UNCHANGED instVars

\* variant: the entry is inserted at the head of its sequence
AppendEntryFirst(p, key, entry, kind) ==
    /\ mem' = [mem EXCEPT ![p][key] = <<entry>> \o @]
    /\ op' = [op EXCEPT ![p] = [kind |-> kind, key |-> key, entry |-> entry,
                                 before |-> mem[p]]]
    /\ pc' = [pc EXCEPT ![p] = "s_mkstemp"]
    /\ ret' = [ret EXCEPT ![p] = "none"]
    /\ result' = [result EXCEPT ![p] = NoMapping]
    /\ clock' = clock + 1

\* the entry is built and appended to self.history; save_history follows
AppendEntry(p, key, entry, kind) ==
    /\ mem' = [mem EXCEPT ![p][key] = Append(@, entry)]
    /\ op' = [op EXCEPT ![p] = [kind |-> kind, key |-> key, entry |-> entry,
                                 before |-> mem[p]]]
    /\ pc' = [pc EXCEPT ![p] = "s_mkstemp"]
    /\ ret' = [ret EXCEPT ![p] = "none"]
    /\ result' = [result EXCEPT ![p] = NoMapping]
    /\ clock' = clock + 1

add_installation(p, source, target, type, checksum, kind) ==
    AppendEntry(p, "installations",
                InstallEntry(clock, source, target, type, checksum), kind)

add_uninstallation(p, target, kind) ==
    AppendEntry(p, "uninstallations", UninstallEntry(clock, target), kind)

AddInstallation(p) ==
    /\ Ready(p)
    /\ clock <= MaxAppends
    /\ \E s \in AddSources, t \in AddTargets :
          add_installation(p, s, t, "binary", NullChecksum, "add_installation")
    /\ UNCHANGED <<histVars, instVars>>

AddUninstallation(p) ==
    /\ Ready(p)
    /\ clock <= MaxAppends
    /\ \E t \in AddTargets : add_uninstallation(p, t, "add_uninstallation")
    /\ UNCHANGED <<histVars, instVars>>

\* variant: the uninstallations are consumed from self.history
GetInstalledFilesConsuming(p) ==
    /\ Ready(p)
    /\ result' = [result EXCEPT ![p] = get_installed_files(mem[p])]
    /\ mem' = [mem EXCEPT ![p].uninstallations = <<>>]
    /\ op' = [op EXCEPT ![p] = [kind |-> "get_installed_files"]]
    /\ ret' = [ret EXCEPT ![p] = "ok"]
    /\ UNCHANGED <<histVars, instVars, pc, clock>>

GetInstalledFiles(p) ==
    /\ Ready(p)
    /\ result' = [result EXCEPT ![p] = get_installed_files(mem[p])]
    /\ op' = [op EXCEPT ![p] = [kind |-> "get_installed_files"]]
    /\ ret' = [ret EXCEPT ![p] = "ok"]
    /\ UNCHANGED <<histVars, instVars, mem, pc, clock>>

----------------------------------------------------------------------------
(* HistoryManager.save_history, step by step *)

\* tempfile.mkstemp: a new, empty staging file under a name not in use
SaveMkstemp(p) ==
    /\ pc[p] = "s_mkstemp"
    /\ tmp' = [tmp EXCEPT ![p] = FreshTmp]
    /\ tmpFiles' = [tmpFiles EXCEPT ![FreshTmp] = File(<<>>, MkstempMode)]
    /\ pc' = [pc EXCEPT ![p] = "s_lock"]
    /\ UNCHANGED <<histFile, locked, mem, op, ret, result, clock, acked, atLock>>
    /\ UNCHANGED instVars

\* fcntl.flock(LOCK_EX) on the staging file: waits while that file is locked
SaveLock(p) ==
    /\ pc[p] = "s_lock"
    /\ tmp[p] \notin locked
    /\ locked' = locked \cup {tmp[p]}
    /\ atLock' = [atLock EXCEPT ![p] = LoadHistory(histFile).log]
    /\ pc' = [pc EXCEPT ![p] = "s_dump"]
    /\ UNCHANGED <<histFile, tmpFiles, mem, op, ret, result, tmp, clock, acked>>
    /\ UNCHANGED instVars

\* variant: the document is written in place, at its final path
SaveDumpInPlace(p) ==
    /\ pc[p] = "s_dump"
    /\ LET doc == Dump(mem[p]) IN
       histFile' = File(SubSeq(doc, 1, Len(doc) \div 2), HistoryMode)
    /\ pc' = [pc EXCEPT ![p] = "s_sync"]
    /\ UNCHANGED <<tmpFiles, locked, mem, op, ret, result, tmp, clock, acked, atLock>>
    /\ UNCHANGED instVars

\* json.dump: part of the document has reached the staging file
SaveDump(p) ==
    /\ pc[p] = "s_dump"
    /\ LET doc == Dump(mem[p]) IN
       tmpFiles' = [tmpFiles EXCEPT ![tmp[p]].content =
                        SubSeq(doc, 1, Len(doc) \div 2)]
    /\ pc' = [pc EXCEPT ![p] = "s_sync"]
    /\ UNCHANGED <<histFile, locked, mem, op, ret, result, tmp, clock, acked, atLock>>
    /\ UNCHANGED instVars

\* f.flush(); os.fsync(): the whole document is in the staging file
SaveSync(p) ==
    /\ pc[p] = "s_sync"
    /\ tmpFiles' = [tmpFiles EXCEPT ![tmp[p]].content = Dump(mem[p])]
    /\ pc' = [pc EXCEPT ![p] = "s_unlock"]
    /\ UNCHANGED <<histFile, locked, mem, op, ret, result, tmp, clock, acked, atLock>>
    /\ UNCHANGED instVars

\* fcntl.flock(LOCK_UN) and close
SaveUnlock(p) ==
    /\ pc[p] = "s_unlock"
    /\ locked' = locked \ {tmp[p]}
    /\ pc' = [pc EXCEPT ![p] = "s_chmod"]
    /\ UNCHANGED <<histFile, tmpFiles, mem, op, ret, result, tmp, clock, acked, atLock>>
    /\ UNCHANGED instVars

\* variant: the staging file keeps the mode mkstemp gave it
SaveChmodSkipped(p) ==
    /\ pc[p] = "s_chmod"
    /\ pc' = [pc EXCEPT ![p] = "s_replace"]
    /\ UNCHANGED <<histFile, tmpFiles, locked, mem, op, ret, result, tmp, clock,
                   acked, atLock>>
    /\ UNCHANGED instVars

\* os.chmod(temp_path, 0o644)
SaveChmod(p) ==
    /\ pc[p] = "s_chmod"
    /\ tmpFiles' = [tmpFiles EXCEPT ![tmp[p]].mode = HistoryMode]
    /\ pc' = [pc EXCEPT ![p] = "s_replace"]
    /\ UNCHANGED <<histFile, locked, mem, op, ret, result, tmp, clock, acked, atLock>>
    /\ UNCHANGED instVars

\* os.replace(temp_path, self.history_file); the caller then returns
SaveReplace(p) ==
    /\ pc[p] = "s_replace"
    /\ histFile' = tmpFiles[tmp[p]]
    /\ tmpFiles' = [tmpFiles EXCEPT ![tmp[p]] = Absent]
    /\ tmp' = [tmp EXCEPT ![p] = "none"]
    /\ pc' = [pc EXCEPT ![p] = "ready"]
    /\ ret' = [ret EXCEPT ![p] = "ok"]
    /\ acked' = acked \cup {op[p].entry}
    /\ atLock' = [atLock EXCEPT ![p] = EmptyLog]
    /\ UNCHANGED <<locked, mem, op, result, clock>>
    /\ UNCHANGED instVars

----------------------------------------------------------------------------
(* UniversalInstaller.install_file, step by step *)

\* the call returns False; op keeps the arguments of a call under way
Fail(p, kind, why) ==
    /\ pc' = [pc EXCEPT ![p] = "ready"]
    /\ ret' = [ret EXCEPT ![p] = why]
    /\ op' = [op EXCEPT ![p] = IF pc[p] = "ready" THEN [kind |-> kind] ELSE @]
    /\ result' = [result EXCEPT ![p] = NoMapping]

\* install_file(source_path, target_name, force, remove_extension) up to
\* calculate_checksum: validate_source, is_python_script, calculate_checksum
install_file(p, path, target_name, force, remove_extension) ==
    /\ LET f == src[path]
           v == validate_source(f)
       IN IF v # "ok"
          THEN /\ pc' = [pc EXCEPT ![p] = "ready"]
               /\ ret' = [ret EXCEPT ![p] = v]
               /\ UNCHANGED <<sourceStat, loc>>
          ELSE /\ sourceStat' = [sourceStat EXCEPT ![p] = Stat(f)]
               /\ loc' = [loc EXCEPT ![p] =
                     [NoLoc EXCEPT !.source = path,
                                   !.is_python = is_python_script(SrcName(path), f),
                                   !.checksum = calculate_checksum(f)]]
               /\ pc' = [pc EXCEPT ![p] = "i_target"]
               /\ ret' = [ret EXCEPT ![p] = "none"]
    /\ op' = [op EXCEPT ![p] =
          [kind |-> "install_file", source_path |-> path,
           target_name |-> target_name, force |-> force,
           remove_extension |-> remove_extension]]
    /\ result' = [result EXCEPT ![p] = NoMapping]
    /\ UNCHANGED <<histVars, mem, clock, src, dirExists, dest>>

InstallFile(p) ==
    /\ Ready(p)
    /\ clock <= MaxAppends
    /\ \E path \in InstallPaths, target_name \in TargetNameArgs,
          force \in BOOLEAN, remove_extension \in BOOLEAN :
          install_file(p, path, target_name, force, remove_extension)

\* variant: create_install_dir runs before the name is looked at
InstallTargetDirFirst(p) ==
    /\ pc[p] = "i_target"
    /\ dirExists' = TRUE
    /\ LET name == TargetFilename(op[p].target_name, SrcName(loc[p].source),
                                  loc[p].is_python, op[p].remove_extension)
       IN IF HasSeparator(name)
          THEN /\ Fail(p, "install_file", "ValidationError")
               /\ UNCHANGED loc
          ELSE IF validate_target_path(TargetPath(name)) # "ok"
          THEN /\ Fail(p, "install_file", "ValidationError")
               /\ UNCHANGED loc
          ELSE \E response \in Responses :
                 LET prompted == dest[name].exists /\ ~op[p].force
                     answer == IF prompted THEN response ELSE NoResponse
                 IN
                 IF prompted /\ Lower(response) # "y"
                 THEN /\ Fail(p, "install_file", "cancelled")
                      /\ loc' = [loc EXCEPT ![p].response = answer]
                 ELSE /\ loc' = [loc EXCEPT ![p].target = name,
                                            ![p].temp = with_suffix(name, TmpSuffix(p)),
                                            ![p].response = answer]
                      /\ pc' = [pc EXCEPT ![p] = "i_verify1"]
                      /\ UNCHANGED <<op, ret, result>>
    /\ UNCHANGED <<histVars, mem, clock, src, dest, sourceStat>>

\* variant: the answer to the overwrite prompt is not looked at
InstallTargetOverwriting(p) ==
    /\ pc[p] = "i_target"
    /\ LET name == TargetFilename(op[p].target_name, SrcName(loc[p].source),
                                  loc[p].is_python, op[p].remove_extension)
       IN IF HasSeparator(name)
          THEN /\ Fail(p, "install_file", "ValidationError")
               /\ UNCHANGED <<dirExists, loc>>
          ELSE IF validate_target_path(TargetPath(name)) # "ok"
          THEN /\ Fail(p, "install_file", "ValidationError")
               /\ UNCHANGED <<dirExists, loc>>
          ELSE \E response \in Responses :
                 LET prompted == dest[name].exists /\ ~op[p].force
                     answer == IF prompted THEN response ELSE NoResponse
                 IN
                 IF FALSE
                 THEN /\ Fail(p, "install_file", "cancelled")
                      /\ loc' = [loc EXCEPT ![p].response = answer]
                      /\ UNCHANGED dirExists
                 ELSE /\ dirExists' = TRUE
                      /\ loc' = [loc EXCEPT ![p].target = name,
                                            ![p].temp = with_suffix(name, TmpSuffix(p)),
                                            ![p].response = answer]
                      /\ pc' = [pc EXCEPT ![p] = "i_verify1"]
                      /\ UNCHANGED <<op, ret, result>>
    /\ UNCHANGED <<histVars, mem, clock, src, dest, sourceStat>>

\* target name, its validation, the overwrite prompt, create_install_dir
InstallTarget(p) ==
    /\ pc[p] = "i_target"
    /\ LET name == TargetFilename(op[p].target_name, SrcName(loc[p].source),
                                  loc[p].is_python, op[p].remove_extension)
       IN IF HasSeparator(name)
          THEN /\ Fail(p, "install_file", "ValidationError")
               /\ UNCHANGED <<dirExists, loc>>
          ELSE IF validate_target_path(TargetPath(name)) # "ok"
          THEN /\ Fail(p, "install_file", "ValidationError")
               /\ UNCHANGED <<dirExists, loc>>
          ELSE \E response \in Responses :
                 LET prompted == dest[name].exists /\ ~op[p].force
                     answer == IF prompted THEN response ELSE NoResponse
                 IN
                 IF prompted /\ Lower(response) # "y"
                 THEN /\ Fail(p, "install_file", "cancelled")
                      /\ loc' = [loc EXCEPT ![p].response = answer]
                      /\ UNCHANGED dirExists
                 ELSE /\ dirExists' = TRUE
                      /\ loc' = [loc EXCEPT ![p].target = name,
                                            ![p].temp = with_suffix(name, TmpSuffix(p)),
                                            ![p].response = answer]
                      /\ pc' = [pc EXCEPT ![p] = "i_verify1"]
                      /\ UNCHANGED <<op, ret, result>>
    /\ UNCHANGED <<histVars, mem, clock, src, dest, sourceStat>>

\* the first verify_source_unchanged
InstallVerify1(p) ==
    /\ pc[p] = "i_verify1"
    /\ LET v == verify_source_unchanged(p, src[loc[p].source])
       IN IF v # "ok" THEN Fail(p, "install_file", v)
          ELSE /\ pc' = [pc EXCEPT ![p] = "i_open"]
               /\ UNCHANGED <<op, ret, result>>
    /\ UNCHANGED <<histVars, instVars, mem, clock>>

\* the part of a file written first
FirstPart(content) == SubSeq(content, 1, Len(content) \div 2)

\* variant: the file is written at its final name
InstallOpenInPlace(p) ==
    /\ pc[p] = "i_open"
    /\ LET f == src[loc[p].source]
           content == IF loc[p].is_python THEN ensure_shebang(f.content)
                      ELSE f.content
       IN IF ~f.exists
          THEN /\ Fail(p, "install_file", "OSError")
               /\ UNCHANGED <<dest, loc>>
          ELSE /\ dest' = [dest EXCEPT ![loc[p].target] =
                               RegFile(FirstPart(content), OpenMode, clock)]
               /\ loc' = [loc EXCEPT ![p].content =
                             IF loc[p].is_python THEN content ELSE <<>>]
               /\ pc' = [pc EXCEPT ![p] = "i_stage"]
               /\ UNCHANGED <<op, ret, result>>
    /\ UNCHANGED <<histVars, mem, clock, src, dirExists, sourceStat>>

\* the staging file is created and its first part written: a script is read
\* whole by ensure_shebang before the staging file is opened, copy2 reads the
\* source as it writes.  A source that is gone cannot be opened.
InstallOpen(p) ==
    /\ pc[p] = "i_open"
    /\ LET f == src[loc[p].source]
           content == IF loc[p].is_python THEN ensure_shebang(f.content)
                      ELSE f.content
       IN IF ~f.exists
          THEN /\ Fail(p, "install_file", "OSError")
               /\ UNCHANGED <<dest, loc>>
          ELSE /\ dest' = [dest EXCEPT ![loc[p].temp] =
                               RegFile(FirstPart(content), OpenMode, clock)]
               /\ loc' = [loc EXCEPT ![p].content =
                             IF loc[p].is_python THEN content ELSE <<>>]
               /\ pc' = [pc EXCEPT ![p] = "i_stage"]
               /\ UNCHANGED <<op, ret, result>>
    /\ UNCHANGED <<histVars, mem, clock, src, dirExists, sourceStat>>

\* the rest of the staging file is written, then copystat copies the mode
\* and the times of the source; copystat fails when the source is gone, and
\* the staging file is unlinked
InstallStage(p) ==
    /\ pc[p] = "i_stage"
    /\ LET f == src[loc[p].source]
           written == dest[loc[p].temp].content
           content == IF loc[p].is_python THEN loc[p].content
                      ELSE written \o SubSeq(f.content, Len(written) + 1,
                                             Len(f.content))
       IN IF ~f.exists
          THEN /\ Fail(p, "install_file", "OSError")
               /\ dest' = [dest EXCEPT ![loc[p].temp] = NoFile]
          ELSE /\ dest' = [dest EXCEPT ![loc[p].temp] =
                               RegFile(content, f.mode, f.mtime)]
               /\ pc' = [pc EXCEPT ![p] = "i_chmod"]
               /\ UNCHANGED <<op, ret, result>>
    /\ UNCHANGED <<histVars, mem, clock, src, dirExists, sourceStat, loc>>

\* variant: the staging file keeps the mode copied from the source
InstallChmodSkipped(p) ==
    /\ pc[p] = "i_chmod"
    /\ pc' = [pc EXCEPT ![p] = "i_verify2"]
    /\ UNCHANGED <<histVars, mem, op, ret, result, clock, instVars>>

\* temp_target.chmod(DEFAULT_PERMISSIONS)
InstallChmod(p) ==
    /\ pc[p] = "i_chmod"
    /\ dest' = [dest EXCEPT ![loc[p].temp].mode = DEFAULT_PERMISSIONS]
    /\ pc' = [pc EXCEPT ![p] = "i_verify2"]
    /\ UNCHANGED <<histVars, mem, op, ret, result, clock, src, dirExists,
                   sourceStat, loc>>

\* variant: no second verify_source_unchanged
InstallVerify2Skipped(p) ==
    /\ pc[p] = "i_verify2"
    /\ pc' = [pc EXCEPT ![p] = "i_replace"]
    /\ UNCHANGED <<histVars, mem, op, ret, result, clock, instVars>>

\* the final verify_source_unchanged; on failure the staging file is unlinked
InstallVerify2(p) ==
    /\ pc[p] = "i_verify2"
    /\ LET v == verify_source_unchanged(p, src[loc[p].source])
       IN IF v # "ok"
          THEN /\ Fail(p, "install_file", v)
               /\ dest' = [dest EXCEPT ![loc[p].temp] = NoFile]
          ELSE /\ pc' = [pc EXCEPT ![p] = "i_replace"]
               /\ UNCHANGED <<op, ret, result, dest>>
    /\ UNCHANGED <<histVars, mem, clock, src, dirExists, sourceStat, loc>>

\* variant: the installation is recorded with the rename, unverified
InstallReplaceRecording(p) ==
    /\ pc[p] = "i_replace"
    /\ dest' = [dest EXCEPT ![loc[p].target] = dest[loc[p].temp],
                            ![loc[p].temp] = NoFile]
    /\ add_installation(p, loc[p].source, loc[p].target,
                        IF loc[p].is_python THEN "python" ELSE "binary",
                        loc[p].checksum, "install_file")
    /\ UNCHANGED <<histVars, src, dirExists, sourceStat, loc>>

\* variant: a rename that does not replace an existing destination
InstallReplaceNoClobber(p) ==
    /\ pc[p] = "i_replace"
    /\ dest' = [dest EXCEPT ![loc[p].target] =
                     IF @.exists THEN @ ELSE dest[loc[p].temp],
                            ![loc[p].temp] = NoFile]
    /\ pc' = [pc EXCEPT ![p] = "i_verify"]
    /\ UNCHANGED <<histVars, mem, op, ret, result, clock, src, dirExists,
                   sourceStat, loc>>

\* os.replace(temp_target, target)
InstallReplace(p) ==
    /\ pc[p] = "i_replace"
    /\ dest' = [dest EXCEPT ![loc[p].target] = dest[loc[p].temp],
                            ![loc[p].temp] = NoFile]
    /\ pc' = [pc EXCEPT ![p] = "i_verify"]
    /\ UNCHANGED <<histVars, mem, op, ret, result, clock, src, dirExists,
                   sourceStat, loc>>

\* verify_installation, then add_installation up to its save_history.
\* verify_installation raises on every failure and never returns False, so
\* the branch that unlinks the target is not taken: the handler unlinks the
\* staging name only.
InstallVerifyInstallation(p) ==
    /\ pc[p] = "i_verify"
    /\ LET v == verify_installation(dest[loc[p].target])
       IN IF v # "ok"
          THEN /\ Fail(p, "install_file", v)
               /\ dest' = [dest EXCEPT ![loc[p].temp] = NoFile]
               /\ UNCHANGED <<mem, clock>>
          ELSE /\ add_installation(p, loc[p].source, loc[p].target,
                                   IF loc[p].is_python THEN "python" ELSE "binary",
                                   loc[p].checksum, "install_file")
               /\ UNCHANGED dest
    /\ UNCHANGED <<histVars, src, dirExists, sourceStat, loc>>

----------------------------------------------------------------------------
(* UniversalInstaller.uninstall_file *)

\* uninstall_file(file_name) up to the prompt: name and path validation,
\* the existence check and the prompt
uninstall_file(p, file_name, response) ==
    /\ IF HasSeparator(file_name)
       THEN Fail(p, "uninstall_file", "invalid") /\ UNCHANGED loc
       ELSE IF validate_target_path(TargetPath(file_name)) # "ok"
       THEN Fail(p, "uninstall_file", "ValidationError") /\ UNCHANGED loc
       ELSE IF ~dest[file_name].exists
       THEN Fail(p, "uninstall_file", "not_found") /\ UNCHANGED loc
       ELSE IF Lower(response) # "y"
       THEN Fail(p, "uninstall_file", "cancelled") /\ UNCHANGED loc
       ELSE /\ loc' = [loc EXCEPT ![p] = [NoLoc EXCEPT !.target = file_name]]
            /\ op' = [op EXCEPT ![p] = [kind |-> "uninstall_file"]]
            /\ pc' = [pc EXCEPT ![p] = "u_unlink"]
            /\ ret' = [ret EXCEPT ![p] = "none"]
            /\ result' = [result EXCEPT ![p] = NoMapping]
    /\ UNCHANGED <<histVars, mem, clock, src, dirExists, dest, sourceStat>>

UninstallFile(p) ==
    /\ Ready(p)
    /\ clock <= MaxAppends
    /\ \E file_name \in UninstallNames, response \in Responses :
          uninstall_file(p, file_name, response)

\* target.unlink(), then add_uninstallation up to its save_history
UninstallUnlink(p) ==
    /\ pc[p] = "u_unlink"
    /\ IF ~dest[loc[p].target].exists
       THEN /\ Fail(p, "uninstall_file", "OSError")
            /\ UNCHANGED <<dest, mem, clock>>
       ELSE /\ dest' = [dest EXCEPT ![loc[p].target] = NoFile]
            /\ add_uninstallation(p, loc[p].target, "uninstall_file")
    /\ UNCHANGED <<histVars, src, dirExists, sourceStat, loc>>

----------------------------------------------------------------------------

Next ==
    \E p \in Procs :
        \/ Construct(p)
        \/ AddInstallation(p)
        \/ AddUninstallation(p)
        \/ SaveMkstemp(p)
        \/ SaveLock(p)
        \/ SaveDump(p)
        \/ SaveSync(p)
        \/ SaveUnlock(p)
        \/ SaveChmod(p)
        \/ SaveReplace(p)

Spec == Init /\ [][Next]_vars

\* one installer: install_file and uninstall_file calls, one after another
InstProcs == {"p1"}

InitInst ==
    /\ Init
    /\ histFile = Absent

NextInst ==
    \E p \in InstProcs :
        \/ Construct(p)
        \/ InstallFile(p)
        \/ InstallTarget(p)
        \/ InstallVerify1(p)
        \/ InstallOpen(p)
        \/ InstallStage(p)
        \/ InstallChmod(p)
        \/ InstallVerify2(p)
        \/ InstallReplace(p)
        \/ InstallVerifyInstallation(p)
        \/ UninstallFile(p)
        \/ UninstallUnlink(p)
        \/ SaveMkstemp(p)
        \/ SaveLock(p)
        \/ SaveDump(p)
        \/ SaveSync(p)
        \/ SaveUnlock(p)
        \/ SaveChmod(p)
        \/ SaveReplace(p)

SpecInst == InitInst /\ [][NextInst]_vars

\* one manager holding a log built by a sequence of appends; the calls are
\* get_installed_files on that log
ViewProcs == {"p1"}
ViewTargets == {<<"t1">>, <<"t2">>}

LogOps ==
    [kind : {"install"}, source : Sources, target : ViewTargets]
    \cup [kind : {"uninstall"}, target : ViewTargets]

LogOpSeqs == UNION {[1..n -> LogOps] : n \in 0..MaxLogOps}

\* the log after the appends ops[i..], the i-th made at time i
RECURSIVE LogOf(_, _, _)
LogOf(ops, i, log) ==
    IF i > Len(ops) THEN log
    ELSE LogOf(ops, i + 1,
               IF ops[i].kind = "install"
               THEN [log EXCEPT !.installations =
                        Append(@, InstallEntry(i, ops[i].source, ops[i].target,
                                               "binary", NullChecksum))]
               ELSE [log EXCEPT !.uninstallations =
                        Append(@, UninstallEntry(i, ops[i].target))])

InitView ==
    \E ops \in LogOpSeqs :
        LET log == LogOf(ops, 1, EmptyLog) IN
        /\ histFile = File(Dump(log), HistoryMode)
        /\ mem = [p \in Procs |-> IF p \in ViewProcs THEN log ELSE EmptyLog]
        /\ pc = [p \in Procs |-> IF p \in ViewProcs THEN "ready" ELSE "init"]
        /\ op = [p \in Procs |->
                    IF p \in ViewProcs THEN [kind |-> "construct"] ELSE NoOp]
        /\ ret = [p \in Procs |-> IF p \in ViewProcs THEN "ok" ELSE "none"]
        /\ clock = Len(ops) + 1
        /\ acked = Range(log.installations) \cup Range(log.uninstallations)
        /\ tmpFiles = [n \in TmpNames |-> Absent]
        /\ locked = {}
        /\ result = [p \in Procs |-> NoMapping]
        /\ tmp = [p \in Procs |-> "none"]
        /\ atLock = [p \in Procs |-> EmptyLog]
        /\ src = SrcInit
        /\ dirExists = FALSE
        /\ dest = DestInit
        /\ sourceStat = [p \in Procs |-> NoStat]
        /\ loc = [p \in Procs |-> NoLoc]

NextView == \E p \in ViewProcs : GetInstalledFiles(p)

SpecView == InitView /\ [][NextView]_vars

----------------------------------------------------------------------------
(* Properties of the history store under concurrent appends (Spec) *)

Quiescent == \A p \in Procs : pc[p] \in {"init", "ready"}

DurableLog == LoadHistory(histFile).log

Appending(p) == op[p].kind \in {"add_installation", "add_uninstallation"}

Returned(p, kind) == pc[p] = "ready" /\ ret[p] = "ok" /\ op[p].kind = kind

\* between flock(LOCK_EX) and flock(LOCK_UN)
HoldsLock(p) == pc[p] \in {"s_dump", "s_sync", "s_unlock"}

\* C1: once all appends have returned, the document holds the entries that
\* were there at the start and one entry per append that returned, no more
\* and no fewer.
C1_NoAppendLost ==
    Quiescent =>
        /\ Range(DurableLog.installations) \cup Range(DurableLog.uninstallations)
              = acked
        /\ Len(DurableLog.installations) + Len(DurableLog.uninstallations)
              = Cardinality(acked)

\* C2: from its lock to its rename, the document a save is about to publish
\* is the durable log as it stood at the lock with the new entry appended.
C2_AppendOnTopOfDurable ==
    \A p \in Procs :
        (Appending(p) /\ pc[p] \in {"s_dump", "s_sync", "s_unlock", "s_chmod",
                                    "s_replace"})
        => mem[p] = [atLock[p] EXCEPT ![op[p].key] = Append(@, op[p].entry)]

\* C3: no two processes are at once between acquiring and releasing the
\* lock of their save_history.
C3_MutualExclusion ==
    \A p, q \in Procs : p # q => ~(HoldsLock(p) /\ HoldsLock(q))

\* C4: the final path always holds a well-formed document with both keys;
\* it changes only by the rename of one save, to exactly that save's whole
\* document; and a load is never made to wait.
WellFormedDocument ==
    /\ LoadHistory(histFile).status = "ok"
    /\ histFile.exists => histFile.content = Dump(DurableLog)

LoadNeverBlocks == \A p \in Procs : pc[p] = "init" => ENABLED Construct(p)

PublishedWhole ==
    histFile' # histFile =>
        \E p \in Procs : /\ pc[p] = "s_replace"
                         /\ pc'[p] = "ready"
                         /\ histFile'.content = Dump(mem[p])
                         /\ LoadHistory(histFile').log = mem[p]

C4_AtomicPublish ==
    /\ [](WellFormedDocument /\ LoadNeverBlocks)
    /\ [][PublishedWhole]_vars

C4_Witness ==
    \E p, q \in Procs :
        /\ p # q
        /\ pc[p] = "s_sync"
        /\ Returned(q, "add_installation")
        /\ histFile.exists
        /\ histFile.content = Dump(mem[q])
        /\ mem[p] # mem[q]

\* C5: the step that completes an append leaves a document whose load has the
\* new entry last in its sequence, the other sequence being the manager's own
\* from before the call.
OtherKey(key) ==
    IF key = "installations" THEN "uninstallations" ELSE "installations"

AppendRoundTrip ==
    \A p \in Procs :
        (Appending(p) /\ pc[p] = "s_replace" /\ pc'[p] = "ready")
        => LET l == LoadHistory(histFile') IN
           /\ l.status = "ok"
           /\ l.log[op[p].key] = Append(op[p].before[op[p].key], op[p].entry)
           /\ l.log[op[p].key][Len(l.log[op[p].key])] = op[p].entry
           /\ l.log[OtherKey(op[p].key)] = op[p].before[OtherKey(op[p].key)]

C5_RoundTrip == [][AppendRoundTrip]_vars

C5_Witness ==
    \E p \in Procs :
        /\ Returned(p, "add_uninstallation")
        /\ histFile.content = Dump(mem[p])
        /\ Len(mem[p].uninstallations) >= 2
        /\ Len(mem[p].installations) >= 1

----------------------------------------------------------------------------
(* Properties of get_installed_files (SpecView) *)

Called(p) == op[p].kind = "get_installed_files" /\ ret[p] = "ok"

InstallIndexes(log, t) ==
    {i \in 1..Len(log.installations) : log.installations[i].target = t}

LastInstallation(log, t) ==
    log.installations[CHOOSE i \in InstallIndexes(log, t) :
                          \A j \in InstallIndexes(log, t) : j <= i]

Uninstalled(log, t) ==
    \E i \in 1..Len(log.uninstallations) : log.uninstallations[i].target = t

UninstalledSince(log, t) ==
    \E i \in 1..Len(log.uninstallations) :
        /\ log.uninstallations[i].target = t
        /\ log.uninstallations[i].timestamp >= LastInstallation(log, t).timestamp

\* the current install set as the replay of the log defines it
ReplayView(log) ==
    [t \in {x \in ViewTargets : InstallIndexes(log, x) # {}
                                /\ ~UninstalledSince(log, x)}
        |-> LastInstallation(log, t)]

\* C6: the mapping returned is the replay view: the last installation of
\* each target, less the targets uninstalled at or after that installation.
C6_ReplayView ==
    \A p \in ViewProcs : Called(p) => result[p] = ReplayView(mem[p])

ViewFrame ==
    (\E p \in Procs : \/ result'[p] # result[p]
                      \/ (Called(p)' /\ ~Called(p)))
    => /\ mem' = mem
       /\ histFile' = histFile
       /\ tmpFiles' = tmpFiles
       /\ dest' = dest

C9_Pure ==
    /\ [][ViewFrame]_vars
    /\ [](\A p \in ViewProcs : Called(p) => result[p] = get_installed_files(mem[p]))

C9_Witness ==
    \E p \in ViewProcs :
        /\ Called(p)
        /\ result[p] # NoMapping
        /\ mem[p].uninstallations # <<>>
        /\ histFile.content = Dump(mem[p])

----------------------------------------------------------------------------
(* Properties of install_file and uninstall_file (SpecInst) *)

\* C8: right after a successful install_file of a target it is a key of
\* get_installed_files(), right after a successful uninstall_file it is not.
C8_InstalledAfterInstall ==
    \A p \in InstProcs :
        /\ Returned(p, "install_file")
           => loc[p].target \in DOMAIN get_installed_files(mem[p])
        /\ Returned(p, "uninstall_file")
           => loc[p].target \notin DOMAIN get_installed_files(mem[p])

\* C10: after a successful install_file the destination is a regular file,
\* not a symbolic link, with mode exactly 0o755, whatever the source's mode.
C10_DestinationMode ==
    \A p \in InstProcs :
        Returned(p, "install_file")
        => /\ dest[loc[p].target].exists
           /\ dest[loc[p].target].kind = "file"
           /\ dest[loc[p].target].mode = DEFAULT_PERMISSIONS

C10_Witness ==
    \E p \in InstProcs :
        /\ Returned(p, "install_file")
        /\ src[loc[p].source].mode = 2541
        /\ dest[loc[p].target].mode = DEFAULT_PERMISSIONS
        /\ dest[loc[p].target].content = src[loc[p].source].content

----------------------------------------------------------------------------
(* The guards of install_file and uninstall_file (SpecGuard) *)

\* one installer; the sources include symbolic links and a hard-linked file,
\* the names include separators, "..", and the symbolic link LinkName;
\* validate_target_path is also called on its own
GuardPaths == {"/src/tool.sh", "/src/link", "/src/dangling", "/src/hard"}
BadNames == {<<"sub", "/", "tool">>, <<"sub", "\\", "tool">>, <<"tool", "..">>}
GuardNames == {NoName, LinkName} \cup BadNames
GuardUninstallNames == {<<"tool", ".sh">>, LinkName, <<"sub", "/", "tool">>}

\* the root, the directory itself, a file of it, a nested subdirectory, a
\* path elsewhere, traversals out of the directory and back into it, the link
PathArgs ==
    {<<>>, InstallDir, InstallDir \o << <<"tool">> >>,
     InstallDir \o << <<"sub">>, <<"tool">> >>,
     << <<"etc">>, <<"passwd">> >>,
     InstallDir \o <<ParentDir, <<"etc">> >>,
     InstallDir \o << <<"sub">>, ParentDir, ParentDir, <<"etc">> >>,
     InstallDir \o << <<"sub">>, ParentDir, <<"tool">> >>,
     InstallDir \o <<LinkName>>,
     InstallDir \o <<LinkName, ParentDir, <<"tool">> >>}

InstallGuarded(p) ==
    /\ Ready(p)
    /\ clock <= MaxAppends
    /\ \E path \in GuardPaths, target_name \in GuardNames :
          install_file(p, path, target_name, TRUE, TRUE)

UninstallGuarded(p) ==
    /\ Ready(p)
    /\ clock <= MaxAppends
    /\ \E file_name \in GuardUninstallNames : uninstall_file(p, file_name, "y")

\* a call of validate_target_path(path)
ValidateTargetPath(p) ==
    /\ Ready(p)
    /\ \E path \in PathArgs :
          /\ op' = [op EXCEPT ![p] = [kind |-> "validate_target_path", path |-> path]]
          /\ ret' = [ret EXCEPT ![p] = validate_target_path(path)]
    /\ result' = [result EXCEPT ![p] = NoMapping]
    /\ UNCHANGED <<histVars, instVars, mem, pc, clock>>

NextGuard ==
    \E p \in InstProcs :
        \/ Construct(p)
        \/ InstallGuarded(p)
        \/ InstallTarget(p)
        \/ InstallVerify1(p)
        \/ InstallOpen(p)
        \/ InstallStage(p)
        \/ InstallChmod(p)
        \/ InstallVerify2(p)
        \/ InstallReplace(p)
        \/ InstallVerifyInstallation(p)
        \/ UninstallGuarded(p)
        \/ UninstallUnlink(p)
        \/ ValidateTargetPath(p)
        \/ SaveMkstemp(p)
        \/ SaveLock(p)
        \/ SaveDump(p)
        \/ SaveSync(p)
        \/ SaveUnlock(p)
        \/ SaveChmod(p)
        \/ SaveReplace(p)

SpecGuard == InitInst /\ [][NextGuard]_vars

\* the step in which p makes a call of the given kind
Calls(p, kind) ==
    /\ pc[p] = "ready"
    /\ op'[p].kind = kind
    /\ <<pc[p], op[p], ret[p]>> # <<pc'[p], op'[p], ret'[p]>>

\* what is on disk and in the history
Published == <<dirExists, dest, histFile, tmpFiles, mem>>

\* a symbolic link, whether or not its target exists, or a file with more
\* than one hard link
UnsafeSource(f) == f.kind = "symlink" \/ f.nlink > 1

\* C11: install_file of a source that is a symbolic link (whether or not its
\* target exists) or has more than one hard link fails in validate_source
\* with the unsafe-source error (ValidationError), and creates no staging
\* file, renames nothing and appends no history entry.
C11_UnsafeSourceRejected ==
    [][\A p \in Procs :
         (Calls(p, "install_file") /\ UnsafeSource(src[op'[p].source_path]))
         => /\ pc'[p] = "ready"
            /\ ret'[p] = "ValidationError"
            /\ UNCHANGED Published]_vars

\* p takes a step
Moves(p) == <<pc[p], op[p], ret[p]>> # <<pc'[p], op'[p], ret'[p]>>

\* the call p is making or has last made is install_file with this kind of
\* target name
InstallNamed(call, names) ==
    /\ call.kind = "install_file"
    /\ "target_name" \in DOMAIN call
    /\ call.target_name \in names

\* C12: install_file with a target name containing "/", "\" or ".." fails
\* before any write: no step of the call creates the install directory,
\* writes a staging file, changes a destination or appends a history entry,
\* and the call ends at the name check with ValidationError.
C12_BadNameNoWrite ==
    [][\A p \in Procs :
         (Moves(p) /\ InstallNamed(op'[p], BadNames))
         => /\ UNCHANGED Published
            /\ pc'[p] \in {"i_target", "ready"}
            /\ pc'[p] = "ready" => ret'[p] \in {"ValidationError", "FileNotFoundError"}
            /\ pc[p] = "i_target" => pc'[p] = "ready" /\ ret'[p] = "ValidationError"]_vars

C12_Witness ==
    \E p \in InstProcs :
        /\ pc[p] = "ready"
        /\ InstallNamed(op[p], BadNames)
        /\ op[p].source_path = "/src/tool.sh"
        /\ ret[p] = "ValidationError"
        /\ ~dirExists

\* the resolved parent of the path is the resolved install directory
InsideInstallDir(path) == Parent(Resolve(path, <<>>)) = Resolve(InstallDir, <<>>)

\* os.replace(temp_target, target) and target.unlink() as steps of p
Renames(p) == Moves(p) /\ pc[p] = "i_replace" /\ pc'[p] = "i_verify"
Removes(p) ==
    /\ Moves(p)
    /\ pc[p] = "u_unlink"
    /\ dest[loc[p].target].exists
    /\ ~dest'[loc[p].target].exists

\* the paths the claim names: the directory itself, a nested subdirectory,
\* an absolute path elsewhere, a traversal, a symbolic link leading out of
\* the directory
OutsidePath(path) ==
    \/ path = InstallDir
    \/ /\ Len(path) = 3
       /\ SubSeq(path, 1, 2) = InstallDir \o << <<"sub">> >>
       /\ path[3] # ParentDir
    \/ /\ path # <<>>
       /\ path[1] # InstallDir[1]
       /\ \A i \in 1..Len(path) : path[i] # ParentDir
    \/ /\ Len(path) >= 2
       /\ SubSeq(path, 1, 2) = InstallDir \o <<ParentDir>>
    \/ path = InstallDir \o <<LinkName>>

\* a file of the install directory
DirectChild(path) ==
    /\ Len(path) = 2
    /\ path[1] = InstallDir[1]
    /\ path[2] \notin {ParentDir, LinkName}

ValidatedPath(p) == op[p].kind = "validate_target_path"

\* C13: every path install_file renames a staging file onto and every path
\* uninstall_file removes has the resolved install directory as its resolved
\* parent; validate_target_path accepts a path exactly when its resolved
\* parent is the resolved install directory, so it fails for the directory
\* itself, a nested subdirectory, a path elsewhere, a traversal and a link
\* leading out, and accepts a file of the directory.
C13_InsideInstallDir ==
    /\ [][\A p \in Procs :
            (Renames(p) \/ Removes(p)) => InsideInstallDir(TargetPath(loc[p].target))]_vars
    /\ [](\A p \in Procs :
            ValidatedPath(p)
            => /\ ret[p] = "ok" <=> InsideInstallDir(op[p].path)
               /\ OutsidePath(op[p].path) => ret[p] = "ValidationError"
               /\ DirectChild(op[p].path) => ret[p] = "ok")

C13_Witness ==
    \E p \in InstProcs :
        /\ ValidatedPath(p)
        /\ op[p].path = InstallDir \o << <<"sub">>, <<"tool">> >>
        /\ ret[p] = "ValidationError"
        /\ dest[<<"tool", ".sh">>].exists

----------------------------------------------------------------------------
(* install_file while another process changes the source (SpecTamper) *)

TamperPaths == {"/src/tool.sh", "/src/app.py"}
MaxMtime == 2
MaxInstalls == 1
\* staging files of the history left behind by failed saves
MaxOrphans == 1

InstallTampered(p) ==
    /\ Ready(p)
    /\ clock <= MaxInstalls
    /\ \E path \in TamperPaths : install_file(p, path, NoName, TRUE, TRUE)

\* another process acts on a source file: it rewrites it (new length, new
\* modification time), touches it (new modification time), patches it in
\* place and puts the modification time back with utime (same length, same
\* modification time), or removes it
Tamper ==
    /\ \E path \in TamperPaths, how \in {"rewrite", "touch", "patch", "remove"} :
          LET f == src[path] IN
          /\ f.exists
          /\ how \in {"rewrite", "touch"} => f.mtime < MaxMtime
          /\ how = "patch" => f.content[Len(f.content)] # "evil"
          /\ src' = [src EXCEPT ![path] =
                CASE how = "rewrite" -> [f EXCEPT !.content = Append(@, "evil"),
                                                  !.mtime = @ + 1]
                  [] how = "touch" -> [f EXCEPT !.mtime = @ + 1]
                  [] how = "patch" -> [f EXCEPT !.content[Len(f.content)] = "evil"]
                  [] OTHER -> NoFile]
    /\ UNCHANGED <<histVars, mem, pc, op, ret, result, clock, dirExists, dest,
                   sourceStat, loc>>

\* a call of verify_source_unchanged(path)
VerifySourceUnchanged(p) ==
    /\ Ready(p)
    /\ \E path \in TamperPaths :
          /\ op' = [op EXCEPT ![p] = [kind |-> "verify_source_unchanged",
                                       path |-> path]]
          /\ ret' = [ret EXCEPT ![p] = verify_source_unchanged(p, src[path])]
    /\ result' = [result EXCEPT ![p] = NoMapping]
    /\ UNCHANGED <<histVars, instVars, mem, pc, clock>>

NextTamper ==
    \/ \E p \in InstProcs :
        \/ Construct(p)
        \/ VerifySourceUnchanged(p)
        \/ InstallTampered(p)
        \/ InstallTarget(p)
        \/ InstallVerify1(p)
        \/ InstallOpen(p)
        \/ InstallStage(p)
        \/ InstallChmod(p)
        \/ InstallVerify2(p)
        \/ InstallReplace(p)
        \/ InstallVerifyInstallation(p)
        \/ SaveMkstemp(p)
        \/ SaveLock(p)
        \/ SaveDump(p)
        \/ SaveSync(p)
        \/ SaveUnlock(p)
        \/ SaveChmod(p)
        \/ SaveReplace(p)
    \/ Tamper

SpecTamper == InitInst /\ [][NextTamper]_vars

\* the (modification time, size) of the file now differs from the
\* fingerprint validate_source took
FingerprintDiffers(p, f) ==
    f.mtime # sourceStat[p].mtime \/ Len(f.content) # sourceStat[p].size

\* a step of install_file that is one of its two verify_source_unchanged
Verifies(p) == Moves(p) /\ pc[p] \in {"i_verify1", "i_verify2"}
VerifyFails(p) == pc'[p] = "ready" /\ ret'[p] = "ValidationError"

\* C14: verify_source_unchanged on a validated source that can be stat-ed
\* fails exactly when its modification time or its size differs from the
\* fingerprint taken by validate_source; it fails too when the file is gone
\* and when no source was validated.
C14_FingerprintCheck ==
    /\ [][\A p \in Procs :
            Verifies(p)
            => LET f == src[loc[p].source] IN
               /\ f.exists => (VerifyFails(p) <=> FingerprintDiffers(p, f))
               /\ ~f.exists => VerifyFails(p)]_vars
    /\ [][\A p \in Procs :
            Calls(p, "verify_source_unchanged")
            => LET f == src[op'[p].path] IN
               /\ sourceStat[p] = NoStat => ret'[p] = "ValidationError"
               /\ ~f.exists => ret'[p] = "ValidationError"
               /\ (f.exists /\ op'[p].path = loc[p].source)
                  => (ret'[p] = "ValidationError" <=> FingerprintDiffers(p, f))]_vars

C14_Witness ==
    \E p \in InstProcs :
        /\ pc[p] = "ready"
        /\ op[p].kind = "install_file"
        /\ ret[p] = "ValidationError"
        /\ src[loc[p].source].exists
        /\ src[loc[p].source].mtime # sourceStat[p].mtime
        /\ Len(src[loc[p].source].content) = sourceStat[p].size

\* the step of install_file each step follows
StepBefore ==
    [i_open |-> "i_verify1", i_stage |-> "i_open", i_chmod |-> "i_stage",
     i_verify2 |-> "i_chmod", i_replace |-> "i_verify2", i_verify |-> "i_replace"]

Reaches(p, step) == pc'[p] = step /\ pc[p] # step

SourceIntact(p) ==
    src[loc[p].source].exists /\ ~FingerprintDiffers(p, src[loc[p].source])

ValidatedBytes(p) == Tail(loc[p].checksum)

\* add_installation as a step of install_file
Records(p) == Moves(p) /\ pc[p] = "i_verify" /\ pc'[p] = "s_mkstemp"

\* C16: a change of the source's content between validation and the rename
\* makes the install fail, so when a binary is renamed onto its destination
\* the source still has the validated bytes, the published bytes are the
\* validated bytes, and the checksum recorded is the digest of the published
\* bytes.
C16_PublishedIsValidated ==
    [][\A p \in Procs :
         /\ (Renames(p) /\ ~loc[p].is_python)
            => /\ src[loc[p].source].content = ValidatedBytes(p)
               /\ dest'[loc[p].target].content = ValidatedBytes(p)
         /\ (Records(p) /\ ~loc[p].is_python)
            => op'[p].entry.checksum = calculate_checksum(dest[loc[p].target])]_vars

----------------------------------------------------------------------------
(* install_file and uninstall_file with failing system calls and crashes
   (SpecFault) *)

InstallFaulty(p) ==
    /\ Ready(p)
    /\ clock <= MaxAppends
    /\ \E path \in {"/src/tool.sh", "/src/app.py"} :
          install_file(p, path, <<"tool">>, TRUE, TRUE)

UninstallFaulty(p) ==
    /\ Ready(p)
    /\ clock <= MaxAppends
    /\ uninstall_file(p, <<"tool">>, "y")

\* the steps of install_file inside its try block that make a system call
FaultSteps == {"i_open", "i_stage", "i_chmod", "i_replace", "i_verify"}

\* variant: the handler does not unlink the staging file
InstallFaultNoCleanup(p) ==
    /\ pc[p] \in FaultSteps
    /\ Fail(p, "install_file",
            IF pc[p] = "i_verify" THEN "ValidationError" ELSE "OSError")
    /\ UNCHANGED <<histVars, mem, clock, instVars>>

\* a step of install_file raises: open, write, copystat, chmod or os.replace
\* an OSError, verify_installation a ValidationError; the handler unlinks
\* the staging file and install_file returns False
InstallFault(p) ==
    /\ pc[p] \in FaultSteps
    /\ Fail(p, "install_file",
            IF pc[p] = "i_verify" THEN "ValidationError" ELSE "OSError")
    /\ dest' = [dest EXCEPT ![loc[p].temp] = NoFile]
    /\ UNCHANGED <<histVars, mem, clock, src, dirExists, sourceStat, loc>>

\* os.replace raises and so does the handler's temp_target.unlink(), whose
\* OSError is passed over: the staging file stays
InstallFaultOrphan(p) ==
    /\ pc[p] = "i_replace"
    /\ Fail(p, "install_file", "OSError")
    /\ UNCHANGED <<histVars, mem, clock, instVars>>

\* errno of an OSError raised inside save_history
Errnos == {"ENOSPC", "EACCES", "EIO"}
NoSpace == "InstallationError: No space left on device"
Denied == "PermissionError: Permission denied writing history"
SaveFailed == "InstallationError: Failed to save history"
\* variant: every failure becomes the generic error
TranslatedGeneric(errno) == SaveFailed

Translated(errno) ==
    IF errno = "ENOSPC" THEN NoSpace
    ELSE IF errno = "EACCES" THEN Denied
    ELSE SaveFailed

\* variant: install_file lets the exception through as well
PropagatedRaw(kind, error) ==
    IF error = NoSpace THEN "raise InstallationError: No space left on device"
    ELSE IF error = Denied
    THEN "raise PermissionError: Permission denied writing history"
    ELSE "raise InstallationError: Failed to save history"

\* what the caller of add_installation / add_uninstallation makes of the
\* exception: install_file returns False, the others let it through
Propagated(kind, error) ==
    IF kind = "install_file" THEN error
    ELSE IF error = NoSpace THEN "raise InstallationError: No space left on device"
    ELSE IF error = Denied
    THEN "raise PermissionError: Permission denied writing history"
    ELSE "raise InstallationError: Failed to save history"

\* variant: the failed append takes the published file away again
SaveFaultUndo(p) ==
    /\ pc[p] \in {"s_mkstemp", "s_dump", "s_sync", "s_chmod", "s_replace"}
    /\ \E errno \in Errnos :
          /\ ret' = [ret EXCEPT ![p] = Propagated(op[p].kind, Translated(errno))]
          /\ loc' = [loc EXCEPT ![p].errno = errno]
    /\ locked' = locked \ {tmp[p]}
    /\ tmpFiles' = [n \in TmpNames |-> IF n = tmp[p] THEN Absent ELSE tmpFiles[n]]
    /\ tmp' = [tmp EXCEPT ![p] = "none"]
    /\ atLock' = [atLock EXCEPT ![p] = EmptyLog]
    /\ pc' = [pc EXCEPT ![p] = "ready"]
    /\ dest' = IF op[p].kind = "install_file"
               THEN [dest EXCEPT ![loc[p].target] = NoFile]
               ELSE dest
    /\ UNCHANGED <<histFile, acked, mem, op, result, clock, src, dirExists,
                   sourceStat>>

\* variant: the lock is still held after a failed save
SaveFaultHolding(p) ==
    /\ pc[p] \in {"s_mkstemp", "s_dump", "s_sync", "s_chmod", "s_replace"}
    /\ \E errno \in Errnos :
          /\ ret' = [ret EXCEPT ![p] = Propagated(op[p].kind, Translated(errno))]
          /\ loc' = [loc EXCEPT ![p].errno = errno]
    /\ tmpFiles' = [n \in TmpNames |-> IF n = tmp[p] THEN Absent ELSE tmpFiles[n]]
    /\ tmp' = [tmp EXCEPT ![p] = "none"]
    /\ atLock' = [atLock EXCEPT ![p] = EmptyLog]
    /\ pc' = [pc EXCEPT ![p] = "ready"]
    /\ UNCHANGED <<histFile, locked, acked, mem, op, result, clock, src, dirExists,
                   dest, sourceStat>>

\* variant: the handler of save_history does not unlink the staging file
SaveFaultLeaving(p) ==
    /\ pc[p] \in {"s_mkstemp", "s_dump", "s_sync", "s_chmod", "s_replace"}
    /\ \E errno \in Errnos :
          /\ ret' = [ret EXCEPT ![p] = Propagated(op[p].kind, Translated(errno))]
          /\ loc' = [loc EXCEPT ![p].errno = errno]
    /\ locked' = locked \ {tmp[p]}
    /\ tmp' = [tmp EXCEPT ![p] = "none"]
    /\ atLock' = [atLock EXCEPT ![p] = EmptyLog]
    /\ pc' = [pc EXCEPT ![p] = "ready"]
    /\ UNCHANGED <<histFile, tmpFiles, acked, mem, op, result, clock, src,
                   dirExists, dest, sourceStat>>

\* a step of save_history raises an OSError: the lock goes with the file
\* object, the staging file is unlinked, the error is translated and raised
SaveFault(p) ==
    /\ pc[p] \in {"s_mkstemp", "s_dump", "s_sync", "s_chmod", "s_replace"}
    /\ \E errno \in Errnos :
          /\ ret' = [ret EXCEPT ![p] = Propagated(op[p].kind, Translated(errno))]
          /\ loc' = [loc EXCEPT ![p].errno = errno]
    /\ locked' = locked \ {tmp[p]}
    /\ tmpFiles' = [n \in TmpNames |-> IF n = tmp[p] THEN Absent ELSE tmpFiles[n]]
    /\ tmp' = [tmp EXCEPT ![p] = "none"]
    /\ atLock' = [atLock EXCEPT ![p] = EmptyLog]
    /\ pc' = [pc EXCEPT ![p] = "ready"]
    /\ UNCHANGED <<histFile, acked, mem, op, result, clock, src, dirExists, dest,
                   sourceStat>>

\* staging files of save_history calls that have returned
Orphans == {n \in TmpNames : tmpFiles[n].exists /\ \A q \in Procs : tmp[q] # n}

\* os.replace raises and so does the handler's os.unlink(temp_path), whose
\* OSError is passed over: the staging file stays, the first error is
\* translated and raised
SaveFaultOrphan(p) ==
    /\ pc[p] = "s_replace"
    /\ Cardinality(Orphans) < MaxOrphans
    /\ \E errno \in Errnos \ {"ENOSPC"} :
          /\ ret' = [ret EXCEPT ![p] = Propagated(op[p].kind, Translated(errno))]
          /\ loc' = [loc EXCEPT ![p].errno = errno]
    /\ locked' = locked \ {tmp[p]}
    /\ tmp' = [tmp EXCEPT ![p] = "none"]
    /\ atLock' = [atLock EXCEPT ![p] = EmptyLog]
    /\ pc' = [pc EXCEPT ![p] = "ready"]
    /\ UNCHANGED <<histFile, tmpFiles, acked, mem, op, result, clock, src,
                   dirExists, dest, sourceStat>>

\* the process dies: its lock is released, its files stay as they are
Crash(p) ==
    /\ pc[p] \notin {"init", "ready", "crashed"}
    /\ pc' = [pc EXCEPT ![p] = "crashed"]
    /\ locked' = locked \ {tmp[p]}
    /\ UNCHANGED <<histFile, tmpFiles, tmp, acked, atLock, mem, op, ret, result,
                   clock, instVars>>

NextFault ==
    \E p \in InstProcs :
        \/ Construct(p)
        \/ InstallFaulty(p)
        \/ InstallTarget(p)
        \/ InstallVerify1(p)
        \/ InstallOpen(p)
        \/ InstallStage(p)
        \/ InstallChmod(p)
        \/ InstallVerify2(p)
        \/ InstallReplace(p)
        \/ InstallVerifyInstallation(p)
        \/ UninstallFaulty(p)
        \/ UninstallUnlink(p)
        \/ SaveMkstemp(p)
        \/ SaveLock(p)
        \/ SaveDump(p)
        \/ SaveSync(p)
        \/ SaveUnlock(p)
        \/ SaveChmod(p)
        \/ SaveReplace(p)
        \/ InstallFault(p)
        \/ InstallFaultOrphan(p)
        \/ SaveFault(p)
        \/ SaveFaultOrphan(p)
        \/ Crash(p)

SpecFault == InitInst /\ [][NextFault]_vars

SaveSteps == {"s_mkstemp", "s_lock", "s_dump", "s_sync", "s_unlock", "s_chmod",
              "s_replace"}

\* a step in which install_file returns False, its staging file having been
\* created earlier in the call
FailsAfterStaging(p) ==
    /\ \/ pc[p] \in {"i_stage", "i_chmod", "i_verify2", "i_replace", "i_verify"}
       \/ pc[p] \in SaveSteps /\ op[p].kind = "install_file"
    /\ pc'[p] = "ready"
    /\ ret'[p] # "ok"

Installed(path) ==
    IF is_python_script(SrcName(path), src[path]) THEN ensure_shebang(src[path].content)
    ELSE src[path].content

\* a destination name, as opposed to a staging name
Destinations == CleanNames \ {LinkName}

Whole(f) ==
    /\ f.kind = "file"
    /\ f.mode = DEFAULT_PERMISSIONS
    /\ \E path \in SrcPaths : f.content = Installed(path)

DestinationsWhole == \A n \in Destinations : dest[n].exists => Whole(dest[n])

\* a destination changes only by the rename, to the whole new file, or by
\* the unlink of uninstall_file
DestinationPublishedWhole ==
    \A n \in Destinations :
        dest'[n] # dest[n]
        => \E p \in Procs :
              /\ n = loc[p].target
              /\ \/ /\ Renames(p)
                    /\ dest'[n].content = Installed(loc[p].source)
                    /\ Whole(dest'[n])
                 \/ Removes(p)

Crashes(p) == pc'[p] = "crashed" /\ pc[p] # "crashed"

\* C18: at every point of an install, a crash at any step included, each
\* destination is absent or a whole file with mode 0o755; it changes only in
\* the rename, from its previous state to the whole new file; a crash leaves
\* the destinations and the history document as they were, so one between the
\* staging write and the rename leaves only the staging file.  The history
\* document is absent or whole with mode 0o644 at every point of a save.
C18_AtomicPublishing ==
    /\ [](/\ DestinationsWhole
          /\ WellFormedDocument
          /\ histFile.exists => histFile.mode = HistoryMode)
    /\ [][/\ DestinationPublishedWhole
          /\ PublishedWhole
          /\ \A p \in Procs : Crashes(p) => UNCHANGED <<dest, histFile>>]_vars

C18_Witness ==
    \E p \in InstProcs :
        /\ pc[p] = "crashed"
        /\ loc[p].temp # NoName
        /\ dest[loc[p].temp].exists
        /\ dest[loc[p].temp].content # Installed(loc[p].source)
        /\ dest[loc[p].target].exists
        /\ dest[loc[p].target].content # Installed(loc[p].source)

\* a step of install_file that appends to the installations
AppendsInstallation(p) ==
    /\ op'[p].kind = "install_file"
    /\ mem'[p].installations # mem[p].installations

\* C19: install_file appends its installation entry only in the step that
\* follows the rename, after verify_installation has accepted the
\* destination on disk (it exists, has the 0o755 bits, is no symbolic link);
\* the history document gains an installation entry only after that.
C19_RecordAfterVerification ==
    [][\A p \in Procs :
         /\ AppendsInstallation(p)
            => /\ pc[p] = "i_verify"
               /\ verify_installation(dest[loc[p].target]) = "ok"
               /\ dest[loc[p].target].content = Installed(loc[p].source)
               /\ ~dest[loc[p].temp].exists
               /\ mem'[p].installations = Append(mem[p].installations, op'[p].entry)
               /\ op'[p].entry.target = loc[p].target
         /\ Reaches(p, "i_verify") => pc[p] = "i_replace"
         /\ (Moves(p) /\ pc[p] = "i_verify" /\ ~AppendsInstallation(p))
            => pc'[p] \in {"ready", "crashed"} /\ ret'[p] # "ok"
         /\ (histFile' # histFile /\ Moves(p))
            => Range(LoadHistory(histFile').log.installations)
                  \subseteq Range(mem[p].installations)]_vars

C19_Witness ==
    \E p \in InstProcs :
        /\ pc[p] = "s_mkstemp"
        /\ op[p].kind = "install_file"
        /\ op[p].entry \in Range(mem[p].installations)
        /\ verify_installation(dest[loc[p].target]) = "ok"
        /\ histFile = Absent

\* the step in which the save_history of an append fails
SaveFails(p) == pc[p] \in SaveSteps /\ pc'[p] = "ready" /\ ret'[p] # "ok"

\* C20: a failed history append leaves the install directory as the action
\* before it made it: after a failed add_installation the destination is in
\* place, whole and with mode 0o755; after a failed add_uninstallation the
\* file is still removed.
C20_FailedAppendKeepsFiles ==
    [][\A p \in Procs :
         SaveFails(p)
         => /\ dest' = dest
            /\ op[p].kind = "install_file"
               => /\ dest'[loc[p].target].exists
                  /\ Whole(dest'[loc[p].target])
                  /\ dest'[loc[p].target].content = Installed(loc[p].source)
            /\ op[p].kind = "uninstall_file" => ~dest'[loc[p].target].exists]_vars

C20_Witness ==
    \E p \in InstProcs :
        /\ pc[p] = "ready"
        /\ op[p].kind = "install_file"
        /\ ret[p] = SaveFailed
        /\ op[p].entry \notin Range(DurableLog.installations)
        /\ dest[loc[p].target].content = Installed(loc[p].source)
        /\ dest[loc[p].target].mode = DEFAULT_PERMISSIONS

----------------------------------------------------------------------------
(* Calls running to their return: failing system calls, no crash
   (SpecReturn) *)

NextReturn ==
    \E p \in InstProcs :
        \/ Construct(p)
        \/ InstallFaulty(p)
        \/ InstallTarget(p)
        \/ InstallVerify1(p)
        \/ InstallOpen(p)
        \/ InstallStage(p)
        \/ InstallChmod(p)
        \/ InstallVerify2(p)
        \/ InstallReplace(p)
        \/ InstallVerifyInstallation(p)
        \/ UninstallFaulty(p)
        \/ UninstallUnlink(p)
        \/ SaveMkstemp(p)
        \/ SaveLock(p)
        \/ SaveDump(p)
        \/ SaveSync(p)
        \/ SaveUnlock(p)
        \/ SaveChmod(p)
        \/ SaveReplace(p)
        \/ InstallFault(p)
        \/ InstallFaultOrphan(p)
        \/ SaveFault(p)
        \/ SaveFaultOrphan(p)

\* the process runs on: a step that can be taken is taken
SpecReturn == InitInst /\ [][NextReturn]_vars /\ WF_vars(NextReturn)

\* an exception left the call
Escaped(p) ==
    ret[p] \in {"raise InstallationError: No space left on device",
                "raise PermissionError: Permission denied writing history",
                "raise InstallationError: Failed to save history"}

InCall(p) == pc[p] \notin {"init", "ready", "crashed"}

\* the step each step of a call of install_file follows
InstallStepBefore ==
    [i_target |-> "ready", i_verify1 |-> "i_target", i_open |-> "i_verify1",
     i_stage |-> "i_open", i_chmod |-> "i_stage", i_verify2 |-> "i_chmod",
     i_replace |-> "i_verify2", i_verify |-> "i_replace", s_mkstemp |-> "i_verify",
     s_lock |-> "s_mkstemp", s_dump |-> "s_lock", s_sync |-> "s_dump",
     s_unlock |-> "s_sync", s_chmod |-> "s_unlock", s_replace |-> "s_chmod"]

\* the step in which install_file returns True
ReturnsTrue(p) ==
    /\ Moves(p)
    /\ pc'[p] = "ready"
    /\ op'[p].kind = "install_file"
    /\ ret'[p] = "ok"

\* C21: every call of install_file comes to its return, with True or with
\* False and never with an exception; it returns True only at the end of
\* the steps validation and checksum, target, staging, rename, verification
\* and the save of the history, taken in this order with none left out, the
\* destination published and the entry in the document.
C21_InstallReturns ==
    /\ [](\A p \in Procs : op[p].kind = "install_file" => ~Escaped(p))
    /\ [][\A p \in Procs :
            /\ (Moves(p) /\ op'[p].kind = "install_file")
               => \A step \in DOMAIN InstallStepBefore :
                     Reaches(p, step) => pc[p] = InstallStepBefore[step]
            /\ ReturnsTrue(p)
               => /\ pc[p] = "s_replace"
                  /\ dest'[loc[p].target].content = Installed(loc[p].source)
                  /\ op[p].entry \in Range(LoadHistory(histFile').log.installations)
                  /\ op[p].entry.checksum = loc[p].checksum]_vars
    /\ \A p \in InstProcs :
          (InCall(p) /\ op[p].kind = "install_file")
          ~> (pc[p] = "ready" /\ op[p].kind = "install_file"
              /\ ret[p] # "none" /\ ~Escaped(p))

C21_Witness ==
    \E p \in InstProcs :
        /\ Returned(p, "install_file")
        /\ Len(DurableLog.installations) = 2
        /\ dest[loc[p].target].content = Installed(loc[p].source)

\* C22: uninstall_file hands a success or failure value to its caller and
\* lets no exception escape, whatever fails: the name, the target path, a
\* missing file, a declined confirmation, the removal, or the append to the
\* history after the file was removed.
C22_UninstallReturns ==
    \A p \in Procs :
        (pc[p] = "ready" /\ op[p].kind = "uninstall_file") => ~Escaped(p)

----------------------------------------------------------------------------
(* A file in the install directory that no install put there
   (SpecForeign) *)

ForeignName == <<"app">>

\* another program copies a file into the install directory
Foreign ==
    /\ ~dest[ForeignName].exists
    /\ ForeignName \notin DOMAIN get_installed_files(DurableLog)
    /\ dirExists' = TRUE
    /\ dest' = [dest EXCEPT ![ForeignName] = RegFile(<<"ELF">>, DEFAULT_PERMISSIONS, clock)]
    /\ UNCHANGED <<histVars, mem, pc, op, ret, result, clock, src, sourceStat, loc>>

NextForeign ==
    \/ Foreign
    \/ \E p \in InstProcs :
          \/ Construct(p)
          \/ InstallFaulty(p)
          \/ InstallTarget(p)
          \/ InstallVerify1(p)
          \/ InstallOpen(p)
          \/ InstallStage(p)
          \/ InstallChmod(p)
          \/ InstallVerify2(p)
          \/ InstallReplace(p)
          \/ InstallVerifyInstallation(p)
          \/ UninstallFile(p)
          \/ UninstallUnlink(p)
          \/ SaveMkstemp(p)
          \/ SaveLock(p)
          \/ SaveDump(p)
          \/ SaveSync(p)
          \/ SaveUnlock(p)
          \/ SaveChmod(p)
          \/ SaveReplace(p)

SpecForeign == InitInst /\ [][NextForeign]_vars

\* the names get_installed_files returns to the caller of uninstall_file
InstallSet(p) == DOMAIN get_installed_files(mem[p])

\* C23: uninstall_file of a name that is not in the install set removes no
\* file and appends no uninstallation entry, whether or not a file of that
\* name is in the install directory: a file is removed, and an
\* uninstallation appended, only for a name get_installed_files returns.
C23_UninstallOnlyInstalled ==
    [][\A p \in Procs :
         /\ Removes(p) => loc[p].target \in InstallSet(p)
         /\ (op'[p].kind = "uninstall_file"
             /\ mem'[p].uninstallations # mem[p].uninstallations)
            => loc[p].target \in InstallSet(p)]_vars

----------------------------------------------------------------------------
(* The overwrite prompt (SpecInst) *)

\* the step of install_file in which the prompt is answered
Answers(p) ==
    /\ Moves(p)
    /\ pc[p] = "i_target"
    /\ loc'[p].response # NoResponse

\* the call ends at the prompt and nothing on disk or in the history changed
Declined(p) ==
    /\ pc'[p] = "ready"
    /\ ret'[p] = "cancelled"
    /\ UNCHANGED Published

\* C24 as stated: when the destination exists and overwrite was not forced,
\* any answer other than "y" makes install_file return failure with
\* everything unchanged.
C24_DeclinedUnlessY ==
    [][\A p \in Procs :
         (Answers(p) /\ loc'[p].response # "y") => Declined(p)]_vars

\* C24: the prompt is put only when the destination exists and overwrite was
\* not forced, at the step that follows validation and before any write of
\* the call; any answer other than "y" or "Y" makes install_file return
\* failure there with the destination, the staging names, the directory and
\* the history unchanged.
C24_DeclinedUnlessYes ==
    [][\A p \in Procs :
         /\ Answers(p)
            => /\ ~op[p].force
               /\ dest[TargetFilename(op[p].target_name, SrcName(loc[p].source),
                                      loc[p].is_python, op[p].remove_extension)].exists
         /\ (Answers(p) /\ loc'[p].response \notin {"y", "Y"}) => Declined(p)
         /\ (Calls(p, "install_file") \/ Reaches(p, "i_target"))
            => UNCHANGED Published]_vars

C24_Witness ==
    \E p \in InstProcs :
        /\ pc[p] = "ready"
        /\ op[p].kind = "install_file"
        /\ ret[p] = "cancelled"
        /\ loc[p].response = "n"
        /\ dest[<<"tool">>].exists

----------------------------------------------------------------------------
(* Two installers, one process each, on the same directory (SpecPair) *)

\* what each process installs, and under which name: "tool" for both, or
\* the name of its source ("tool.sh", and "app" for "app.py")
PairSource(p) == IF p = "p1" THEN "/src/tool.sh" ELSE "/src/app.py"
PairNames == {NoName, <<"tool">>}

InstallPaired(p) ==
    /\ Ready(p)
    /\ clock <= MaxInstalls
    /\ \E target_name \in PairNames :
          install_file(p, PairSource(p), target_name, TRUE, TRUE)

NextPair ==
    \E p \in Procs :
        \/ Construct(p)
        \/ InstallPaired(p)
        \/ InstallTarget(p)
        \/ InstallVerify1(p)
        \/ InstallOpen(p)
        \/ InstallStage(p)
        \/ InstallChmod(p)
        \/ InstallVerify2(p)
        \/ InstallReplace(p)
        \/ InstallVerifyInstallation(p)
        \/ SaveMkstemp(p)
        \/ SaveLock(p)
        \/ SaveDump(p)
        \/ SaveSync(p)
        \/ SaveUnlock(p)
        \/ SaveChmod(p)
        \/ SaveReplace(p)

SpecPair == InitInst /\ [][NextPair]_vars

\* p has chosen its destination and its staging name
Targeted(p) == loc[p].target # NoName

\* what the rename of p puts at its destination
Staged(p) == RegFile(Installed(loc[p].source), DEFAULT_PERMISSIONS,
                     src[loc[p].source].mtime)

\* C25: two installs of different target names in two processes do not
\* interfere: the staging names are in the install directory, differ from
\* each other and from both destinations; a rename changes its own
\* destination and staging name and nothing else, and puts the complete
\* content of its own install there; no step of the other install changes
\* that destination or that staging file.
C25_DifferentTargets ==
    /\ [](\A p, q \in Procs :
            (p # q /\ Targeted(p) /\ Targeted(q) /\ loc[p].target # loc[q].target)
            => /\ loc[p].temp # loc[q].temp
               /\ loc[p].temp \notin {loc[p].target, loc[q].target}
               /\ Parent(TargetPath(loc[p].temp)) = InstallDir)
    /\ [][\A p, q \in Procs :
            (p # q /\ Targeted(p) /\ loc'[q].target # loc[p].target)
            => /\ Renames(p)
                  => /\ dest'[loc[p].target] = Staged(p)
                     /\ \A n \in DestNames \ {loc[p].target, loc[p].temp} :
                           dest'[n] = dest[n]
               /\ Moves(q)
                  => /\ dest'[loc[p].target] = dest[loc[p].target]
                     /\ dest'[loc[p].temp] = dest[loc[p].temp]]_vars

C25_Witness ==
    /\ \A p \in Procs : Returned(p, "install_file")
    /\ loc["p1"].target = <<"tool", ".sh">>
    /\ loc["p2"].target = <<"tool">>
    /\ \A p \in Procs : dest[loc[p].target] = Staged(p)

\* C26: two installs to the same target name both go on to their rename;
\* each rename replaces the destination by exactly the complete file its own
\* install staged, a destination changes at a rename only, and so it always
\* holds the whole content of the install that renamed last, never a mixture
\* and nothing of the earlier content.
C26_LastRenameWins ==
    /\ [][\A p \in Procs : Renames(p) => dest'[loc[p].target] = Staged(p)]_vars
    /\ [][\A n \in Destinations :
            dest'[n] # dest[n]
            => \E p \in Procs : Renames(p) /\ loc[p].target = n]_vars
    /\ [](\A n \in Destinations :
            dest[n].exists => \E p \in Procs : dest[n].content = Installed(PairSource(p)))

C26_Witness ==
    /\ \A p \in Procs : Returned(p, "install_file") /\ loc[p].target = <<"tool">>
    /\ Staged("p1") # Staged("p2")
    /\ dest[<<"tool">>] = Staged("p1")
    /\ Len(DurableLog.installations) = 1
    /\ DurableLog.installations[1].source = PairSource("p2")

----------------------------------------------------------------------------
(* A manager constructed on a document it did not write (SpecLoad) *)

LoadProcs == {"p1"}

OldEntry == InstallEntry(0, "s2", <<"t1">>, "binary", NullChecksum)

\* logs with both keys, with and without a further key
ValidLogs ==
    {EmptyLog,
     [installations |-> <<OldEntry>>, uninstallations |-> <<>>],
     [installations |-> <<OldEntry>>, uninstallations |-> <<>>, extra |-> <<>>]}

\* objects lacking one of the keys or both
MissingKeyLogs ==
    {[installations |-> <<OldEntry>>],
     [uninstallations |-> <<>>],
     [extra |-> <<>>]}

\* JSON values that are not objects
NonObjectDocs == {<<LBrack, RBrack>>, <<LBrack, EntryTok(OldEntry), RBrack>>}

\* text that is not JSON: the empty file, a document cut short, a document
\* followed by more text
MalformedDocs ==
    {<<>>,
     SubSeq(Dump(EmptyLog), 1, 4),
     Dump(EmptyLog) \o <<RBrace>>}

\* a document with bytes that are not text
UndecodableDocs == {<<LBrace, BadBytes, RBrace>>}

LoadDocs ==
    {Dump(log) : log \in ValidLogs \cup MissingKeyLogs}
    \cup NonObjectDocs \cup MalformedDocs \cup UndecodableDocs

\* the modes of a document this program did not write: 0o600, 0o666
DocModes == {384, 438}

InitLoad ==
    /\ histFile \in {Absent} \cup {File(c, m) : c \in LoadDocs, m \in DocModes}
    /\ tmpFiles = [n \in TmpNames |-> Absent]
    /\ locked = {}
    /\ mem = [p \in Procs |-> EmptyLog]
    /\ pc = [p \in Procs |-> "init"]
    /\ op = [p \in Procs |-> NoOp]
    /\ ret = [p \in Procs |-> "none"]
    /\ result = [p \in Procs |-> NoMapping]
    /\ tmp = [p \in Procs |-> "none"]
    /\ clock = 1
    /\ acked = Range(LoadHistory(histFile).log.installations)
    /\ atLock = [p \in Procs |-> EmptyLog]
    /\ src = SrcInit
    /\ dirExists = FALSE
    /\ dest = DestInit
    /\ sourceStat = [p \in Procs |-> NoStat]
    /\ loc = [p \in Procs |-> NoLoc]

NextLoad ==
    \E p \in LoadProcs :
        \/ Construct(p)
        \/ AddInstallation(p)
        \/ AddUninstallation(p)
        \/ SaveMkstemp(p)
        \/ SaveLock(p)
        \/ SaveDump(p)
        \/ SaveSync(p)
        \/ SaveUnlock(p)
        \/ SaveChmod(p)
        \/ SaveReplace(p)

SpecLoad == InitLoad /\ [][NextLoad]_vars

\* the step that is HistoryManager.__init__ calling load_history
Constructs(p) == pc[p] = "init" /\ op'[p].kind = "construct" /\ Moves(p)

\* load_history returned this log
Loaded(p, log) == pc'[p] = "ready" /\ ret'[p] = "ok" /\ mem'[p] = log

\* load_history raised the corrupt-log error
Corrupt(p) == pc'[p] = "init" /\ ret'[p] = "ValidationError"

\* C27: load_history writes nothing; with no document it returns the empty
\* log; it raises ValidationError for a document that is not well-formed
\* JSON (not text at all, empty, cut short, followed by more text), that is
\* not an object, or that lacks one of the two keys; for every other
\* document it returns the content, further keys included.
C27_LoadHistory ==
    [][\A p \in Procs :
         Constructs(p)
         => /\ UNCHANGED <<histFile, tmpFiles>>
            /\ ~histFile.exists => Loaded(p, EmptyLog)
            /\ (histFile.exists
                /\ histFile.content \in MalformedDocs \cup UndecodableDocs)
               => Corrupt(p)
            /\ (histFile.exists /\ histFile.content \in NonObjectDocs)
               => Corrupt(p)
            /\ \A log \in MissingKeyLogs :
                  (histFile.exists /\ histFile.content = Dump(log)) => Corrupt(p)
            /\ \A log \in ValidLogs :
                  (histFile.exists /\ histFile.content = Dump(log))
                  => Loaded(p, log)]_vars

----------------------------------------------------------------------------
(* Failures of save_history (SpecFault) *)

\* C28: a failing step of save_history ends the save at once, with no
\* second attempt and the document untouched, and raises exactly one error:
\* for errno 28 the InstallationError "No space left on device", for errno
\* 13 the PermissionError, for every other errno the InstallationError
\* "Failed to save history"; install_file returns False with it,
\* uninstall_file lets it through; no OSError is raised.
C28_ErrorTranslation ==
    [][\A p \in Procs :
         SaveFails(p)
         => /\ pc'[p] = "ready"
            /\ tmp'[p] = "none"
            /\ histFile' = histFile
            /\ loc'[p].errno \in Errnos
            /\ ret'[p] \notin {"OSError", "raise OSError"}
            /\ loc'[p].errno = "ENOSPC"
               => ret'[p] = Propagated(op[p].kind,
                                       "InstallationError: No space left on device")
            /\ loc'[p].errno = "EACCES"
               => ret'[p] = Propagated(op[p].kind,
                              "PermissionError: Permission denied writing history")
            /\ loc'[p].errno \notin {"ENOSPC", "EACCES"}
               => ret'[p] = Propagated(op[p].kind,
                                       "InstallationError: Failed to save history")]_vars

C28_Witness ==
    \E p \in InstProcs :
        /\ pc[p] = "ready"
        /\ op[p].kind = "install_file"
        /\ loc[p].errno = "EACCES"
        /\ ret[p] = Denied

----------------------------------------------------------------------------
(* The mode of the history document (SpecLoad) *)

\* the step in which save_history returns
Saves(p) == pc[p] = "s_replace" /\ pc'[p] = "ready" /\ ret'[p] = "ok"

\* C29: when save_history returns the document exists with mode exactly
\* 0o644, whatever mode the document had before; whenever the document at
\* its final path changes, what is there afterwards has mode 0o644.
C29_DocumentMode ==
    /\ [][\A p \in Procs :
            Saves(p) => histFile'.exists /\ histFile'.mode = HistoryMode]_vars
    /\ [][histFile' # histFile
          => /\ \E p \in Procs : Saves(p)
             /\ histFile'.mode = HistoryMode]_vars

\* a document that had mode 0o600 or 0o666 before the save
C29_Witness ==
    \E p \in LoadProcs :
        /\ Returned(p, "add_installation")
        /\ "extra" \in DOMAIN DurableLog
        /\ Len(DurableLog.installations) = 2
        /\ histFile.mode = HistoryMode

----------------------------------------------------------------------------
(* The steps of save_history (SpecFault) *)

\* the step each step of save_history follows
SaveStepBefore ==
    [s_lock |-> "s_mkstemp", s_dump |-> "s_lock", s_sync |-> "s_dump",
     s_unlock |-> "s_sync", s_chmod |-> "s_unlock", s_replace |-> "s_chmod"]

Acquires(p) == tmp'[p] \in locked' /\ tmp'[p] \notin locked
Releases(p) == tmp[p] \in locked /\ tmp[p] \notin locked'

\* C30: save_history takes its steps in the order staging file, lock,
\* write, flush and fsync, unlock, mode, rename.  The staging file is new
\* and empty; the lock is taken in the lock step only and given back in the
\* unlock step, or in the step in which the write or the sync fails, and is
\* held nowhere else; the rename publishes a staging file that holds the
\* whole document, is synced, unlocked and has its mode set.
C30_SaveOrder ==
    /\ [](\A p \in Procs : tmp[p] \in locked <=> HoldsLock(p))
    /\ [][\A p \in Procs :
            /\ \A step \in DOMAIN SaveStepBefore :
                  Reaches(p, step) => pc[p] = SaveStepBefore[step]
            /\ Reaches(p, "s_lock")
               => /\ ~tmpFiles[tmp'[p]].exists
                  /\ tmpFiles'[tmp'[p]] = File(<<>>, MkstempMode)
            /\ Acquires(p) => pc[p] = "s_lock" /\ pc'[p] = "s_dump"
            /\ Releases(p)
               => \/ pc[p] = "s_unlock" /\ pc'[p] = "s_chmod"
                  \/ pc[p] \in {"s_dump", "s_sync"} /\ (SaveFails(p) \/ Crashes(p))
                  \/ pc[p] = "s_unlock" /\ Crashes(p)
            /\ (SaveFails(p) /\ pc[p] \in {"s_dump", "s_sync"}) => Releases(p)
            /\ Reaches(p, "s_chmod")
               => tmpFiles[tmp[p]].content = Dump(mem[p])
            /\ Saves(p)
               => /\ tmp[p] \notin locked
                  /\ tmpFiles[tmp[p]] = File(Dump(mem[p]), HistoryMode)
                  /\ histFile' = tmpFiles[tmp[p]]]_vars

C30_Witness ==
    \E p \in InstProcs :
        /\ pc[p] = "s_replace"
        /\ tmp[p] \notin locked
        /\ tmpFiles[tmp[p]] = File(Dump(mem[p]), HistoryMode)
        /\ Len(mem[p].uninstallations) = 1

----------------------------------------------------------------------------
(* The shape of the log (SpecLoad) *)

TwoKeys == {"installations", "uninstallations"}

\* the document at the final path was written by save_history
Written == histFile.exists /\ histFile.mode = HistoryMode

\* C31: every log in memory after a successful load, and every document
\* save_history wrote, has exactly the keys "installations" and
\* "uninstallations"; a document with further keys is neither accepted nor
\* written.
C31_DocumentShape ==
    /\ \A p \in Procs : pc[p] # "init" => DOMAIN mem[p] = TwoKeys
    /\ Written => DOMAIN Parse(histFile.content).data = TwoKeys

----------------------------------------------------------------------------
(* Direct calls of the checks on files other programs made (SpecChecks) *)

CheckNames == {<<"tool">>, <<"app">>}

\* 0o755, 0o777, 0o644, 0o4755, 0o555
CheckModes == {493, 511, 420, 2541, 365}

\* another program puts a file or a symbolic link at a name of the install
\* directory, or removes it; for a link, mode is what stat() reports
Place ==
    \E n \in CheckNames :
        /\ \/ \E mode \in CheckModes, kind \in {"file", "symlink"} :
                dest' = [dest EXCEPT ![n] =
                            [RegFile(<<"ELF">>, mode, 1) EXCEPT !.kind = kind]]
           \/ dest' = [dest EXCEPT ![n] = NoFile]
        /\ dest'[n] # dest[n]
        /\ UNCHANGED <<histVars, mem, pc, op, ret, result, clock, src, dirExists,
                       sourceStat, loc>>

\* a call of verify_installation(target_path)
VerifyInstallation(p) ==
    /\ Ready(p)
    /\ \E n \in CheckNames :
          /\ op' = [op EXCEPT ![p] = [kind |-> "verify_installation", target |-> n]]
          /\ ret' = [ret EXCEPT ![p] = verify_installation(dest[n])]
    /\ result' = [result EXCEPT ![p] = NoMapping]
    /\ UNCHANGED <<histVars, instVars, mem, pc, clock>>

\* a call of validate_source(source_path)
ValidateSource(p) ==
    /\ Ready(p)
    /\ \E path \in SrcPaths :
          /\ op' = [op EXCEPT ![p] = [kind |-> "validate_source", path |-> path,
                                       message |-> source_error(src[path])]]
          /\ ret' = [ret EXCEPT ![p] = validate_source(src[path])]
          /\ sourceStat' = [sourceStat EXCEPT ![p] =
                                IF validate_source(src[path]) = "ok"
                                THEN Stat(src[path]) ELSE @]
    /\ result' = [result EXCEPT ![p] = NoMapping]
    /\ UNCHANGED <<histVars, mem, pc, clock, src, dirExists, dest, loc>>

NextChecks ==
    \/ Place
    \/ \E p \in InstProcs :
          \/ Construct(p)
          \/ VerifyInstallation(p)
          \/ ValidateSource(p)

SpecChecks == InitInst /\ [][NextChecks]_vars

\* C32: verify_installation succeeds only for a destination that exists, is
\* no symbolic link and has permission bits exactly 0o755; for every other
\* mode (0o777, 0o644, ...), for a symbolic link and for a missing file it
\* fails with ValidationError.
C32_ExactMode ==
    [][\A p \in Procs :
         Calls(p, "verify_installation")
         => LET f == dest[op'[p].target] IN
            /\ ret'[p] \in {"ok", "ValidationError"}
            /\ ret'[p] = "ok"
               <=> (f.exists /\ f.kind = "file" /\ f.mode = DEFAULT_PERMISSIONS)]_vars

----------------------------------------------------------------------------
(* Failed verification of the destination (SpecFault) *)

\* the step in which install_file fails at verify_installation
VerificationFails(p) ==
    /\ pc[p] = "i_verify"
    /\ pc'[p] = "ready"
    /\ ret'[p] = "ValidationError"

\* C33: when the verification of the published destination fails,
\* install_file removes the destination before it returns: no file is left
\* under the destination name.
C33_FailedVerificationRemoves ==
    [][\A p \in Procs :
         VerificationFails(p) => ~dest'[loc[p].target].exists]_vars

----------------------------------------------------------------------------
(* The order of the checks of validate_source (SpecChecks) *)

\* C34: validate_source reports the first check that fails, in the order
\* existence (FileNotFoundError), link check on the path as given
\* (ValidationError, symlink or hardlink), regular file (ValidationError,
\* not a file); a directory with more than one link is rejected by the link
\* check; the fingerprint is captured only when all three have passed.
C34_CheckOrder ==
    [][\A p \in Procs :
         Calls(p, "validate_source")
         => LET f == src[op'[p].path]
                linked == f.kind = "symlink" \/ f.nlink > 1
            IN
            /\ ~f.exists
               => /\ ret'[p] = "FileNotFoundError"
                  /\ op'[p].message = "Source file not found"
            /\ (f.exists /\ linked)
               => /\ ret'[p] = "ValidationError"
                  /\ op'[p].message = "is a symlink or hardlink"
            /\ (f.exists /\ ~linked /\ f.kind # "file")
               => /\ ret'[p] = "ValidationError"
                  /\ op'[p].message = "Source is not a file"
            /\ (f.exists /\ ~linked /\ f.kind = "file")
               => /\ ret'[p] = "ok"
                  /\ sourceStat'[p] = Stat(f)
            /\ ret'[p] # "ok" => sourceStat'[p] = sourceStat[p]]_vars

C34_Witness ==
    \E p \in InstProcs :
        /\ op[p].kind = "validate_source"
        /\ op[p].path = "/src/dir"
        /\ op[p].message = "is a symlink or hardlink"
        /\ ret[p] = "ValidationError"

----------------------------------------------------------------------------
(* Installs of every kind of source (SpecKinds) *)

KindPaths == {"/src/tool.sh", "/src/app.py", "/src/suid", "/src/run",
              "/src/gui.pyw", "/src/sh.py", "/src/APP.PY", "/src/venv",
              "/src/win.py"}

InstallKinds(p) ==
    /\ Ready(p)
    /\ clock <= MaxInstalls
    /\ \E path \in KindPaths, target_name \in TargetNameArgs,
          remove_extension \in BOOLEAN :
          install_file(p, path, target_name, TRUE, remove_extension)

NextKinds ==
    \E p \in InstProcs :
        \/ Construct(p)
        \/ InstallKinds(p)
        \/ InstallTarget(p)
        \/ InstallVerify1(p)
        \/ InstallOpen(p)
        \/ InstallStage(p)
        \/ InstallChmod(p)
        \/ InstallVerify2(p)
        \/ InstallReplace(p)
        \/ InstallVerifyInstallation(p)
        \/ SaveMkstemp(p)
        \/ SaveLock(p)
        \/ SaveDump(p)
        \/ SaveSync(p)
        \/ SaveUnlock(p)
        \/ SaveChmod(p)
        \/ SaveReplace(p)

SpecKinds == InitInst /\ [][NextKinds]_vars

\* C35: what the rename publishes.  For an interpreted source the content
\* begins with a "#!" line: the source content itself when that begins with
\* "#!", otherwise "#!/usr/bin/env python3" followed by the unchanged source
\* content; ensure_shebang changes nothing in it.  For a binary source it
\* is the source content.
C35_PublishedContent ==
    [][\A p \in Procs :
         Renames(p)
         => LET c == src[loc[p].source].content
                published == dest'[loc[p].target].content
            IN
            /\ loc[p].is_python
               => /\ published # <<>> /\ published[1] \in MarkerLines
                  /\ (c # <<>> /\ c[1] \in MarkerLines) => published = c
                  /\ (c = <<>> \/ c[1] \notin MarkerLines)
                     => published = <<Shebang>> \o c
                  /\ ensure_shebang(published) = published
            /\ ~loc[p].is_python => published = c]_vars

\* the names the claim gives: the file name of each source, and the name
\* with ".py" stripped where the source is a script whose name ends in ".py"
FileName ==
    [path \in KindPaths |->
        CASE path = "/src/tool.sh" -> <<"tool", ".sh">>
          [] path = "/src/app.py" -> <<"app", ".py">>
          [] path = "/src/suid" -> <<"suid">>
          [] path = "/src/run" -> <<"run">>
          [] path = "/src/gui.pyw" -> <<"gui", ".pyw">>
          [] path = "/src/sh.py" -> <<"sh", ".py">>
          [] path = "/src/APP.PY" -> <<"APP", ".PY">>
          [] path = "/src/venv" -> <<"venv">>
          [] OTHER -> <<"win", ".py">>]
Stripped ==
    [path \in {"/src/app.py", "/src/sh.py", "/src/win.py"} |->
        CASE path = "/src/app.py" -> <<"app">>
          [] path = "/src/sh.py" -> <<"sh">>
          [] OTHER -> <<"win">>]

\* the step of install_file that settles the destination name
Names(p) == Moves(p) /\ pc[p] = "i_target" /\ pc'[p] = "i_verify1"

\* C36: the destination name is the explicit target name when one is given;
\* otherwise the file name of the source, with ".py" stripped when the
\* source is a script, stripping is enabled and the name ends in ".py", and
\* unchanged in every other case (no suffix, ".sh", ".pyw", ".PY",
\* stripping disabled).  When install_file returns True a file exists under
\* that name.
C36_DestinationName ==
    [][\A p \in Procs :
         /\ Names(p)
            => LET path == op[p].source_path IN
               loc'[p].target =
                  IF op[p].target_name # NoName THEN op[p].target_name
                  ELSE IF op[p].remove_extension /\ path \in DOMAIN Stripped
                  THEN Stripped[path]
                  ELSE FileName[path]
         /\ ReturnsTrue(p)
            => /\ loc'[p].target = loc[p].target
               /\ dest'[loc[p].target].exists
               /\ dest'[loc[p].target].kind = "file"]_vars

C36_Witness ==
    \E p \in InstProcs :
        /\ Returned(p, "install_file")
        /\ loc[p].source = "/src/sh.py"
        /\ loc[p].target = <<"sh">>
        /\ dest[<<"sh">>].exists
        /\ ~dest[<<"sh", ".py">>].exists

\* the sources whose name ends in ".py" or ".pyw" in any case, or whose
\* first line begins with "#!" and names python
NamedScripts == {"/src/app.py", "/src/gui.pyw", "/src/sh.py", "/src/APP.PY",
                 "/src/win.py", "/src/run", "/src/venv"}

\* the step in which install_file classifies an accepted source
Classifies(p) ==
    /\ Calls(p, "install_file")
    /\ op'[p].source_path \in KindPaths

\* C37: a source is classified interpreted exactly when its name ends in
\* ".py" or ".pyw" (in any case) or its first line begins with "#!" and
\* names python; every other source is binary and is accepted, with or
\* without the executable bit; the type recorded in the installation entry
\* is this classification.
C37_Classification ==
    [][\A p \in Procs :
         /\ Classifies(p)
            => /\ pc'[p] = "i_target"
               /\ loc'[p].is_python <=> op'[p].source_path \in NamedScripts
         /\ Records(p)
            => op'[p].entry.type =
                  IF loc[p].source \in NamedScripts THEN "python" ELSE "binary"]_vars

----------------------------------------------------------------------------
(* The result of install_file and the durable history (SpecReturn) *)

\* the step in which install_file returns False
ReturnsFalse(p) ==
    /\ Moves(p)
    /\ pc'[p] = "ready"
    /\ op'[p].kind = "install_file"
    /\ ret'[p] # "ok"

\* C38: the call of install_file that returns True has added exactly one
\* installation entry to the durable document, the entry of this install
\* (its source, target, type and checksum); a call that returns False
\* leaves the durable document as it was, with no entry of that attempt.
C38_TrueIffRecorded ==
    [][\A p \in Procs :
         /\ ReturnsTrue(p)
            => LET before == DurableLog.installations
                   after == LoadHistory(histFile').log.installations
               IN /\ Len(after) = Len(before) + 1
                  /\ SubSeq(after, 1, Len(before)) = before
                  /\ after[Len(after)] = op[p].entry
                  /\ op[p].entry.source = loc[p].source
                  /\ op[p].entry.target = loc[p].target
                  /\ op[p].entry.checksum = loc[p].checksum
         /\ ReturnsFalse(p)
            => /\ histFile' = histFile
               /\ "entry" \in DOMAIN op[p]
                  => op[p].entry \notin Range(DurableLog.installations)]_vars

----------------------------------------------------------------------------
(* What a failed save_history leaves behind (SpecFault) *)

\* the staging file of the save p is making is gone after the step
StagingGone(p) == tmp[p] # "none" => ~tmpFiles'[tmp[p]].exists

----------------------------------------------------------------------------
(* The in-memory log after a failed append (SpecFault) *)

\* the entries of the durable document
DurableEntries ==
    Range(DurableLog.installations) \cup Range(DurableLog.uninstallations)

\* C40: when add_installation or add_uninstallation fails to save, the
\* in-memory log of the manager is the one from before the call; the
\* durable document only ever holds entries of appends that succeeded.
C40_FailedAppendRollsBack ==
    /\ [][\A p \in Procs : SaveFails(p) => mem'[p] = op[p].before]_vars
    /\ [](DurableEntries \subseteq acked)

====
